---- MODULE Spec2Model ----
(***************************************************************************)
(* Schema-migration engine of sandy-ddd: MigrationManager driving one      *)
(* migration adapter (SQLite, MySQL, knex SQL, Postgres, MongoDB) against  *)
(* a backend holding the _migrations ledger, user tables and indexes; and  *)
(* BaseDriver.transaction over the Postgres driver.                        *)
(***************************************************************************)
EXTENDS Integers, Sequences, FiniteSets, TLC

\* Longest migration list handed to the MigrationManager constructor.
MaxMigrations == 3

(***************************************************************************)
(* Migration ids are strings of decimal digits, modelled as sequences of   *)
(* digits: "10", "2", "21".  Lexical order differs from numeric order on   *)
(* this pool ("10" < "2" < "21").                                          *)
(***************************************************************************)
Ids == { <<1, 0>>, <<2>>, <<2, 1>> }

AdapterKinds == { "SQLite", "MySQL", "SQL", "Postgres", "MongoDB" }

\* a.localeCompare(b) on digit strings: -1, 0 or 1, character by character,
\* a proper prefix sorting first.
RECURSIVE LocaleCompare(_, _)
LocaleCompare(a, b) ==
  IF a = <<>> /\ b = <<>> THEN 0
  ELSE IF a = <<>> THEN -1
  ELSE IF b = <<>> THEN 1
  ELSE IF Head(a) < Head(b) THEN -1
  ELSE IF Head(a) > Head(b) THEN 1
  ELSE LocaleCompare(Tail(a), Tail(b))

\* Insert migration x into the sorted list s, after every element that does
\* not compare greater (Array.prototype.sort is stable).
RECURSIVE InsertSorted(_, _)
InsertSorted(x, s) ==
  IF s = <<>> THEN <<x>>
  ELSE IF LocaleCompare(x.id, Head(s).id) < 0 THEN <<x>> \o s
  ELSE <<Head(s)>> \o InsertSorted(x, Tail(s))

RECURSIVE SortedCopy(_)
SortedCopy(list) ==
  IF list = <<>> THEN <<>>
  ELSE InsertSorted(list[Len(list)], SortedCopy(SubSeq(list, 1, Len(list) - 1)))

\* A constructor that keeps the caller's order.
UnsortedCopy(list) == list

\* migrations.slice().sort((a, b) => a.id.localeCompare(b.id))
SortById(list) == SortedCopy(list)

(***************************************************************************)
(* Operations and migrations.  An operation is what                        *)
(* Operation.createTable(name)...finalize() yields: params.tableName and   *)
(* params.indexes; neither operation.type nor operation.params.type is     *)
(* ever set by the builder, so both read as undefined.                     *)
(***************************************************************************)
TableName(id, k) == <<id, k>>

Index(name, primary) == [name |-> name, primary |-> primary]

\* Operation.createTable(t).addPrimary("id").addIndex("ix", [...]).finalize()
FullOp(id, k) ==
  [tableName |-> TableName(id, k), type |-> "undefined",
   indexes |-> << Index("pk", TRUE), Index("ix", FALSE) >>]

\* Operation.createTable(t).finalize()
BareOp(id, k) ==
  [tableName |-> TableName(id, k), type |-> "undefined", indexes |-> <<>>]

\* The number of up operations of a migration is the last digit of its id.
NumOps(id) == id[Len(id)]

UpOps(id) == [k \in 1..NumOps(id) |-> FullOp(id, k)]

\* Author-supplied down list, in reverse order of the up list: the first
\* table is dropped with the bare descriptor of the documented scenario, the
\* others with a descriptor that names the indexes again.
DownOps(id) ==
  [j \in 1..NumOps(id) |->
     LET k == NumOps(id) + 1 - j
     IN IF k = 1 THEN BareOp(id, k) ELSE FullOp(id, k)]

\* new Migration(id, description, up, down)
Migration(id) == [id |-> id, up |-> UpOps(id), down |-> DownOps(id)]

\* Lists of distinct ids of length at most MaxMigrations.
IdLists ==
  { s \in UNION { [1..n -> Ids] : n \in 0..MaxMigrations } :
      \A i, j \in 1..Len(s) : i # j => s[i] # s[j] }

(***************************************************************************)
(* Backend schema state and the statements the adapters issue.  A schema   *)
(* is a record [tables, indexes, ok]: the user tables, the indexes (each   *)
(* [t |-> table, n |-> name]) and whether the call is still succeeding.    *)
(***************************************************************************)
Ix(t, n) == [t |-> t, n |-> n]

\* An index name as declared on the operation.
Declared(name) == <<name, "">>

\* lenient: the statement carries IF [NOT] EXISTS; swallow: the adapter wraps
\* the statement in try/catch and ignores any error.
Stmt(kind, t, n, lenient, swallow) ==
  [kind |-> kind, table |-> t, index |-> Ix(t, n), lenient |-> lenient,
   swallow |-> swallow]

\* One statement run by the backend outside any transaction: its effect is
\* durable at once.
ApplyStmt(s, db) ==
  CASE s.kind = "createTable" ->
         IF s.table \in db.tables
         THEN [db EXCEPT !.ok = s.lenient]
         ELSE [db EXCEPT !.tables = @ \cup {s.table}]
    [] s.kind = "createIndex" ->
         IF s.table \notin db.tables THEN [db EXCEPT !.ok = FALSE]
         ELSE IF s.index \in db.indexes THEN [db EXCEPT !.ok = s.lenient]
         ELSE [db EXCEPT !.indexes = @ \cup {s.index}]
    [] s.kind = "dropIndex" ->
         IF s.index \in db.indexes
         THEN [db EXCEPT !.indexes = @ \ {s.index}]
         ELSE [db EXCEPT !.ok = s.lenient]
    [] s.kind = "dropTable" ->
         [db EXCEPT !.tables = @ \ {s.table},
                    !.indexes = { x \in @ : x.t # s.table }]
    [] OTHER -> [db EXCEPT !.ok = FALSE]

\* Statements i.. of one adapter call, awaited one after the other; statement
\* failAt (0: none) fails with a backend error.  A failure ends the call
\* unless the statement is wrapped in a swallowing try/catch.
RECURSIVE RunFrom(_, _, _, _)
RunFrom(stmts, i, db, failAt) ==
  IF i > Len(stmts) THEN db
  ELSE LET s == stmts[i]
           r == IF i = failAt THEN [db EXCEPT !.ok = FALSE] ELSE ApplyStmt(s, db)
       IN IF r.ok THEN RunFrom(stmts, i + 1, r, failAt)
          ELSE IF s.swallow
               THEN RunFrom(stmts, i + 1, [r EXCEPT !.ok = TRUE], failAt)
               ELSE r

\* The indexes of an operation with primary not set, in list order.
NonPrimary(indexes) == SelectSeq(indexes, LAMBDA x : ~x.primary)

\* The name MongoDB gives an index created without a name option: derived
\* from the key pattern, never the name declared on the operation.
MongoIndexName(name) == <<name, "_1">>

\* Statement numbers at which one adapter call can fail with a backend error
\* (0: none); inside a transaction the COMMIT can fail too.
FailPoints(kind, stmts) ==
  0..(Len(stmts) + (IF kind = "Postgres" THEN 1 ELSE 0))

\* Statements of executeOperation(op) per adapter.
ExecStmts(kind, op) ==
  LET t == op.tableName
      create(lenient) == << Stmt("createTable", t, Declared(""), lenient, FALSE) >>
      index(x, lenient) == Stmt("createIndex", t, Declared(x.name), lenient, FALSE)
      np == NonPrimary(op.indexes)
  IN CASE kind = "SQLite" ->
            create(TRUE) \o [i \in 1..Len(np) |-> index(np[i], TRUE)]
       [] kind = "MySQL" ->
            create(TRUE) \o [i \in 1..Len(np) |-> index(np[i], FALSE)]
       [] kind = "MongoDB" ->
            create(TRUE) \o
            [i \in 1..Len(op.indexes) |->
               Stmt("createIndex", t, MongoIndexName(op.indexes[i].name), TRUE, FALSE)]
       [] kind = "SQL" ->
            IF op.type # "createTable"
            THEN << Stmt("throw", t, Declared(""), FALSE, FALSE) >>
            ELSE create(FALSE) \o [i \in 1..Len(np) |-> index(np[i], FALSE)]
       [] kind = "Postgres" ->
            IF op.type = "createTable"
            THEN create(TRUE) \o [i \in 1..Len(np) |-> index(np[i], TRUE)]
            ELSE IF op.type = "dropTable"
            THEN << Stmt("dropTable", t, Declared(""), TRUE, FALSE) >>
            ELSE << Stmt("throw", t, Declared(""), FALSE, FALSE) >>

\* Statements of revertOperation(op) per adapter.
RevertStmts(kind, op) ==
  LET t == op.tableName
      drop(x, lenient, swallow) ==
        Stmt("dropIndex", t, Declared(x.name), lenient, swallow)
      np == NonPrimary(op.indexes)
  IN CASE kind = "SQLite" ->
            [i \in 1..Len(np) |-> drop(np[i], TRUE, FALSE)]
       [] kind = "MySQL" ->
            [i \in 1..Len(np) |-> drop(np[i], FALSE, TRUE)]
       [] kind = "MongoDB" ->
            [i \in 1..Len(op.indexes) |-> drop(op.indexes[i], FALSE, TRUE)]
       [] kind = "SQL" ->
            [i \in 1..Len(np) |-> drop(np[i], TRUE, FALSE)]
            \o << Stmt("dropTable", t, Declared(""), TRUE, FALSE) >>
       [] kind = "Postgres" ->
            IF op.type = "createTable"
            THEN << Stmt("dropTable", t, Declared(""), TRUE, FALSE) >>
            ELSE IF op.type = "dropTable"
            THEN << Stmt("createTable", t, Declared(""), TRUE, FALSE) >>
            ELSE <<>>

\* Only the Postgres adapter wraps executeOperation / revertOperation in
\* driver.transaction(...): a failure inside rolls the call's statements back.
InTransaction(kind) == kind = "Postgres"

\* One adapter call running its statements against the schema db.
RunCall(kind, stmts, db, failAt) ==
  LET r == RunFrom(stmts, 1, [db EXCEPT !.ok = TRUE], failAt)
  IN IF InTransaction(kind) /\ (~r.ok \/ failAt = Len(stmts) + 1)
     THEN [db EXCEPT !.ok = FALSE]
     ELSE r

ExecuteOperation(kind, op, db, failAt) == RunCall(kind, ExecStmts(kind, op), db, failAt)

RevertOperation(kind, op, db, failAt) == RunCall(kind, RevertStmts(kind, op), db, failAt)

(***************************************************************************)
(* Ledger (_migrations) calls.                                             *)
(***************************************************************************)
\* A ledger setup that drops and recreates the table, emptying it.
RecreateMigrationTable(kind, conn, exists, l, fail) ==
  IF kind = "Postgres" /\ ~conn THEN [exists |-> exists, ledger |-> l, ok |-> FALSE]
  ELSE IF fail = 1 THEN [exists |-> exists, ledger |-> l, ok |-> FALSE]
  ELSE [exists |-> TRUE, ledger |-> {}, ok |-> TRUE]

\* ensureMigrationTable() on a ledger holding the ids l: create-if-absent, so
\* the ledger exists afterwards and its rows are kept.  fail = 1 fails the
\* first statement, fail = 2 the second (MongoDB: the unique index after
\* createCollection).  The Postgres adapter runs the statement on its driver
\* without connecting first.
EnsureMigrationTable(kind, conn, exists, l, fail) ==
  IF kind = "Postgres" /\ ~conn THEN [exists |-> exists, ledger |-> l, ok |-> FALSE]
  ELSE IF fail = 1 THEN [exists |-> exists, ledger |-> l, ok |-> FALSE]
  ELSE IF fail = 2 /\ kind = "MongoDB" /\ ~exists
       THEN [exists |-> TRUE, ledger |-> l, ok |-> FALSE]
  ELSE [exists |-> TRUE, ledger |-> l, ok |-> TRUE]

\* INSERT INTO _migrations: id is the primary key.
LedgerInsert(l, id) == l \cup {id}

\* A delete that matches no row.
KeepRow(l, id) == l

\* A delete without its WHERE clause.
TruncateLedger(l, id) == {}

\* DELETE FROM _migrations WHERE id = ?
LedgerDelete(l, id) == l \ {id}

(***************************************************************************)
(* BaseDriver.transaction over PostgresDriver.  The callback issues up to  *)
(* MaxBodyStmts statements through driver.query, which routes them to the  *)
(* transaction client when one is held and to the pool otherwise;          *)
(* statement i writes row i.                                               *)
(***************************************************************************)
MaxBodyStmts == 2

VARIABLES
  pool,        \* PostgresDriver.pool is set (connect() was called)
  client,      \* PostgresDriver.client: "null" or "held"
  txn,         \* the client connection's transaction: "none", "open", "failed"
  work,        \* rows written inside the open transaction
  store,       \* rows durably in the database
  tpc,         \* position inside transaction(callback)
  todo,        \* statements the callback still has to issue
  bodyResult,  \* "none", "returned", "threw"
  pending,     \* the error caught by transaction(), "none" when none
  outcome,     \* "none", "returned", or the error transaction() threw
  nBegin,      \* BEGIN statements issued during the call
  nCommit,     \* COMMIT statements issued during the call
  nRollback,   \* ROLLBACK statements issued during the call
  nRelease,    \* client.release() calls during the call
  committed,   \* a COMMIT of the call succeeded
  rolledBack   \* a ROLLBACK of the call succeeded

txvars ==
  << pool, client, txn, work, store, tpc, todo, bodyResult, pending, outcome,
     nBegin, nCommit, nRollback, nRelease, committed, rolledBack >>

TxInit ==
  /\ pool = FALSE
  /\ client = "null"
  /\ txn = "none"
  /\ work = {}
  /\ store = {}
  /\ tpc = "idle"
  /\ todo = <<>>
  /\ bodyResult = "none"
  /\ pending = "none"
  /\ outcome = "none"
  /\ nBegin = 0
  /\ nCommit = 0
  /\ nRollback = 0
  /\ nRelease = 0
  /\ committed = FALSE
  /\ rolledBack = FALSE

\* transaction() ends: it returns (how = "returned") or throws the error how.
TxEnd(how) ==
  /\ tpc' = "idle"
  /\ outcome' = how
  /\ todo' = <<>>

\* PostgresDriver.connect() / disconnect(), between transactions.
DriverConnect ==
  /\ tpc = "idle"
  /\ pool' = ~pool
  /\ UNCHANGED << client, txn, work, store, tpc, todo, bodyResult, pending,
                  outcome, nBegin, nCommit, nRollback, nRelease, committed,
                  rolledBack >>

\* The caller invokes driver.transaction(callback) with a callback of n
\* statements.
TxCall(n) ==
  /\ tpc = "idle"
  /\ tpc' = "start"
  /\ todo' = [i \in 1..n |-> i]
  /\ bodyResult' = "none"
  /\ pending' = "none"
  /\ outcome' = "none"
  /\ nBegin' = 0
  /\ nCommit' = 0
  /\ nRollback' = 0
  /\ nRelease' = 0
  /\ committed' = FALSE
  /\ rolledBack' = FALSE
  /\ UNCHANGED << pool, client, txn, work, store >>

\* await this.startTransaction(), outside the try block: not connected, or
\* pool.connect() rejects (fail = 1), or BEGIN fails on the new client
\* (fail = 2), or the transaction is open.
StartTransaction ==
  /\ tpc = "start"
  /\ \E fail \in 0..2 :
       IF ~pool
       THEN /\ TxEnd("notConnected")
            /\ UNCHANGED << client, txn, work, nBegin >>
       ELSE IF fail = 1
       THEN /\ TxEnd("connect")
            /\ UNCHANGED << client, txn, work, nBegin >>
       ELSE IF fail = 2
       THEN /\ TxEnd("begin")
            /\ client' = "held"
            /\ txn' = "none"
            /\ work' = {}
            /\ nBegin' = nBegin + 1
       ELSE /\ client' = "held"
            /\ txn' = "open"
            /\ work' = {}
            /\ nBegin' = nBegin + 1
            /\ tpc' = "body"
            /\ UNCHANGED << outcome, todo >>
  /\ UNCHANGED << pool, store, bodyResult, pending, nCommit, nRollback, nRelease,
                  committed, rolledBack >>

\* await callback(): one statement of the callback on the transaction client,
\* or its normal return when none is left; a failing statement puts the
\* transaction in the failed state and the callback throws.
Body ==
  /\ tpc = "body"
  /\ IF todo = <<>>
     THEN /\ bodyResult' = "returned"
          /\ tpc' = "commit"
          /\ UNCHANGED << txn, work, todo, pending >>
     ELSE \E fail \in BOOLEAN :
            IF fail
            THEN /\ bodyResult' = "threw"
                 /\ pending' = "body"
                 /\ txn' = "failed"
                 /\ tpc' = "rollback"
                 /\ UNCHANGED << work, todo >>
            ELSE /\ work' = work \cup {Head(todo)}
                 /\ todo' = Tail(todo)
                 /\ UNCHANGED << txn, tpc, bodyResult, pending >>
  /\ UNCHANGED << pool, client, store, outcome, nBegin, nCommit, nRollback,
                  nRelease, committed, rolledBack >>

\* await this.commitTransaction(), inside the try block: COMMIT makes the
\* work durable, the client is released and forgotten; a failing COMMIT
\* throws into the catch block with the client still held.
CommitTransaction ==
  /\ tpc = "commit"
  /\ \E fail \in BOOLEAN :
       IF client = "null"
       THEN /\ TxEnd("returned")
            /\ UNCHANGED << client, txn, work, store, pending, nCommit, nRelease,
                            committed >>
       ELSE IF fail
       THEN /\ pending' = "commit"
            /\ txn' = "failed"
            /\ tpc' = "rollback"
            /\ nCommit' = nCommit + 1
            /\ UNCHANGED << client, work, store, outcome, todo, nRelease, committed >>
       ELSE /\ store' = store \cup work
            /\ work' = {}
            /\ txn' = "none"
            /\ client' = "null"
            /\ nCommit' = nCommit + 1
            /\ nRelease' = nRelease + 1
            /\ committed' = TRUE
            /\ TxEnd("returned")
            /\ UNCHANGED pending
  /\ UNCHANGED << pool, bodyResult, nBegin, nRollback, rolledBack >>

\* A catch block that wraps what it caught in an error of its own.
Wrapped(caught) == "wrapped"

\* The error transaction() throws from its catch block once
\* rollbackTransaction() has returned: the error it caught.
Rethrown(caught) == caught

\* The catch block: await this.rollbackTransaction(); throw err.  ROLLBACK
\* discards the work, the client is released and forgotten; a failing
\* ROLLBACK throws its own error, the client still held.
RollbackTransaction ==
  /\ tpc = "rollback"
  /\ \E fail \in BOOLEAN :
       IF client = "null"
       THEN /\ TxEnd(Rethrown(pending))
            /\ UNCHANGED << client, txn, work, nRollback, nRelease, rolledBack >>
       ELSE IF fail
       THEN /\ TxEnd("rollback")
            /\ nRollback' = nRollback + 1
            /\ UNCHANGED << client, txn, work, nRelease, rolledBack >>
       ELSE /\ work' = {}
            /\ txn' = "none"
            /\ client' = "null"
            /\ nRollback' = nRollback + 1
            /\ nRelease' = nRelease + 1
            /\ rolledBack' = TRUE
            /\ TxEnd(Rethrown(pending))
  /\ UNCHANGED << pool, store, bodyResult, pending, nBegin, nCommit, committed >>

(***************************************************************************)
(* Manager state.                                                          *)
(***************************************************************************)
VARIABLES
  adapter,        \* which concrete adapter the manager drives
  caps,           \* the methods the adapter object has
  connected,      \* MigrationAdapterPostgres.connected
  input,          \* the caller's migrations array, in the caller's order
  migrations,     \* MigrationManager.migrations
  ledgerExists,   \* the _migrations table / collection exists
  ledger,         \* ids recorded in _migrations
  lastApplied,    \* the id with the latest applied_at, <<>> when none
  tables,         \* user tables of the backend
  indexes,        \* indexes of the backend
  call,           \* public method in flight or last finished
  pc,             \* position of that call between its awaits
  appliedSet,     \* the call's local appliedSet
  mi,             \* index in migrations of the migration in progress
  oi,             \* index of its next operation
  result,         \* how the last call ended: "none", "ok", "error"
  thrown,         \* the error the last call threw to its caller
  log,            \* adapter calls made by the call, in order
  start,          \* backend state when the call started
  unit,           \* backend state when the migration in progress started
  synced,         \* the last mutating call was a migrateUp() that returned
  upStart,        \* ledger at the start of that migrateUp()
  ensured,        \* an ensureMigrationTable() call on the adapter has completed
  unensured       \* ledger methods called while none had completed

vars ==
  << adapter, caps, connected, input, migrations, ledgerExists, ledger, lastApplied,
     tables, indexes, call, pc, appliedSet, mi, oi, result, thrown, log, start,
     unit, synced, upStart, ensured, unensured >>

backend == << ledgerExists, ledger, lastApplied, tables, indexes >>

NoSnapshot == [ledgerExists |-> FALSE, ledger |-> {}, lastApplied |-> <<>>,
               tables |-> {}, indexes |-> {}, synced |-> FALSE]

Snapshot == [ledgerExists |-> ledgerExists, ledger |-> ledger,
             lastApplied |-> lastApplied, tables |-> tables,
             indexes |-> indexes, synced |-> synced]

\* No error: the call returned, or none has ended yet.
NoError == [name |-> "none", id |-> <<>>, cause |-> "none", origin |-> "none"]

\* The rejection of an adapter call (a backend or driver error, or the
\* adapter's own new Error(...)) awaited at position origin: a plain Error
\* that carries neither a migration id nor a cause.
AdapterError(origin) ==
  [name |-> "Error", id |-> <<>>, cause |-> "none", origin |-> origin]

Event(e, id, k, ok) == [e |-> e, id |-> id, k |-> k, ok |-> ok]

\* The log entries of one executeOperation / revertOperation call: the call
\* itself, between the BEGIN and the COMMIT or ROLLBACK of driver.transaction
\* when the adapter uses one.
CallEvents(e, id, k, ok) ==
  IF InTransaction(adapter)
  THEN << Event("begin", id, k, TRUE), Event(e, id, k, ok),
          Event(IF ok THEN "commit" ELSE "rollback", id, k, TRUE) >>
  ELSE << Event(e, id, k, ok) >>

\* The log entry of a backend error raised by statement failAt of an adapter
\* call for a reason other than a missing object (connection lost, permission
\* denied), whether or not the adapter lets it out.
BackendFault(id, k, stmts, failAt) ==
  IF failAt \in 1..Len(stmts) THEN << Event("fault", id, k, FALSE) >> ELSE <<>>

\* The six methods MigrationManager calls on its adapter; the five concrete
\* adapters define all of them.
AdapterMethods ==
  { "ensureMigrationTable", "fetchAppliedIds", "recordAppliedMigration",
    "recordRolledBackMigration", "executeOperation", "revertOperation" }

\* The methods the abstract MigrationAdapter declares: an adapter written
\* against it alone overrides these three and has no other.
BaseMethods == { "ensureMigrationTable", "executeOperation", "revertOperation" }

\* this.adapter.<method> is a function.
Has(method) == method \in caps

\* The adapter method awaited at position p of a manager call.
MethodAt(p) ==
  CASE p = "init" -> "ensureMigrationTable"
    [] p = "fetch" -> "fetchAppliedIds"
    [] p = "exec" -> "executeOperation"
    [] p = "record" -> "recordAppliedMigration"
    [] p = "revert" -> "revertOperation"
    [] p = "unrecord" -> "recordRolledBackMigration"
    [] OTHER -> "none"

\* Reaching a method the adapter object does not have: getAppliedMigrations
\* tests typeof this.adapter.fetchAppliedIds and throws
\* Error("Adapter must implement fetchAppliedIds"); any other call throws
\* TypeError: this.adapter.<method> is not a function.
MissingMethod(method) ==
  [name |-> IF method = "fetchAppliedIds" THEN "Error" ELSE "TypeError",
   id |-> <<>>, cause |-> "none", origin |-> method]

MgrInit ==
  /\ adapter \in AdapterKinds
  /\ caps \in { AdapterMethods, BaseMethods }
  /\ connected = FALSE
  /\ input = <<>>
  /\ migrations = <<>>
  /\ ledgerExists = FALSE
  /\ ledger = {}
  /\ lastApplied = <<>>
  /\ tables = {}
  /\ indexes = {}
  /\ call = "none"
  /\ pc = "idle"
  /\ appliedSet = {}
  /\ mi = 0
  /\ oi = 0
  /\ result = "none"
  /\ thrown = NoError
  /\ log = <<>>
  /\ start = NoSnapshot
  /\ unit = NoSnapshot
  /\ synced = FALSE
  /\ upStart = {}
  /\ ensured = FALSE
  /\ unensured = {}

(***************************************************************************)
(* MigrationManager.                                                       *)
(***************************************************************************)
\* new MigrationManager(adapter, list): the adapter is stored as given and the
\* list as a sorted copy of the caller's array; the constructor always returns.
Construct(list) ==
  /\ pc = "idle"
  /\ input' = [i \in 1..Len(list) |-> Migration(list[i])]
  /\ migrations' = SortById(input')
  /\ call' = "new"
  /\ result' = "ok"
  /\ thrown' = NoError
  /\ log' = <<>>
  /\ start' = NoSnapshot
  /\ unit' = NoSnapshot
  /\ synced' = FALSE
  /\ upStart' = {}
  /\ UNCHANGED << adapter, caps, connected, backend, pc, appliedSet, mi, oi,
                  ensured, unensured >>

\* The caller uses the Postgres adapter directly before any manager call
\* (adapter.fetchAppliedIds()): _connect() connects the driver, sets connected
\* and runs ensureMigrationTable().
AdapterConnect ==
  /\ pc = "idle"
  /\ adapter = "Postgres"
  /\ ~connected
  /\ connected' = TRUE
  /\ \E fail \in 0..1 :
       LET r == EnsureMigrationTable(adapter, TRUE, ledgerExists, ledger, fail)
       IN /\ ledgerExists' = r.exists
          /\ ledger' = r.ledger
          /\ ensured' = (ensured \/ r.ok)
  /\ UNCHANGED << adapter, caps, input, migrations, lastApplied, tables, indexes,
                  call, pc, appliedSet, mi, oi, result, thrown, log, start, unit,
                  synced, upStart, unensured >>

\* Calls that only read the ledger.
ReadOnly == { "status", "applied" }

\* The caller invokes migrateUp(), migrateDown() or status(), which start
\* with await this._init(), or getAppliedMigrations() ("applied"), which
\* starts at the fetchAppliedIds() call.
Begin(c) ==
  /\ pc = "idle"
  /\ call' = c
  /\ pc' = IF c = "applied" THEN "fetch" ELSE "init"
  /\ result' = "none"
  /\ thrown' = NoError
  /\ log' = <<>>
  /\ start' = Snapshot
  /\ unit' = NoSnapshot
  /\ synced' = IF c \in ReadOnly THEN synced ELSE FALSE
  /\ UNCHANGED << adapter, caps, connected, input, migrations, backend, appliedSet, mi,
                  oi, upStart, ensured, unensured >>

\* The call returns (res = "ok") or throws (res = "error"): no try/catch
\* stands between the awaited adapter call and the caller, so the caller gets
\* the adapter's rejection as it is.
Finish(res) ==
  /\ pc' = "idle"
  /\ result' = res
  /\ thrown' = IF res = "ok" THEN NoError
               ELSE IF ~Has(MethodAt(pc)) THEN MissingMethod(MethodAt(pc))
               ELSE AdapterError(pc)
  /\ appliedSet' = {}
  /\ mi' = 0
  /\ oi' = 0
  /\ synced' = IF call \in ReadOnly THEN synced ELSE (call = "up" /\ res = "ok")
  /\ upStart' = IF call = "up" /\ res = "ok" THEN start.ledger ELSE upStart

\* A pending test that ignores the applied set.
AlwaysPending(id, applied) == TRUE

\* appliedSet.has(migration.id) is false: the migration is pending.
IsPending(id, applied) == id \notin applied

\* The first pending migration at or after position i, 0 when there is none
\* (the for loop of migrateUp skipping applied migrations).
RECURSIVE NextPending(_, _)
NextPending(i, applied) ==
  IF i > Len(migrations) THEN 0
  ELSE IF IsPending(migrations[i].id, applied) THEN i
  ELSE NextPending(i + 1, applied)

\* A loop that catches the error of an up operation and goes on with the
\* next pending migration.
SwallowAndContinue ==
  IF pc = "exec" /\ NextPending(mi + 1, appliedSet) # 0
  THEN /\ mi' = NextPending(mi + 1, appliedSet)
       /\ oi' = 1
       /\ pc' = IF Len(migrations[mi'].up) = 0 THEN "record" ELSE "exec"
       /\ UNCHANGED << result, thrown, appliedSet, synced, upStart >>
  ELSE Finish("error")

\* An adapter call threw inside migrateUp()/migrateDown(): nothing catches it,
\* the loop is left and the error reaches the caller.
Throw == Finish("error")

\* await this._init()
InitStep ==
  /\ pc = "init"
  /\ Has(MethodAt(pc))
  /\ \E fail \in 0..2 :
       LET r == EnsureMigrationTable(adapter, connected, ledgerExists, ledger, fail)
       IN /\ ledgerExists' = r.exists
          /\ ledger' = r.ledger
          /\ ensured' = (ensured \/ r.ok)
          /\ IF r.ok
             THEN /\ pc' = "fetch"
                  /\ UNCHANGED << result, thrown, appliedSet, mi, oi, synced, upStart >>
             ELSE Throw
  /\ UNCHANGED << adapter, caps, connected, input, migrations, lastApplied,
                  tables, indexes, call, log, start, unit, unensured >>

\* this.migrations.filter(m => appliedSet.has(m.id)), as positions.
AppliedList(applied) ==
  SelectSeq([i \in 1..Len(migrations) |-> i],
            LAMBDA i : migrations[i].id \in applied)

\* The oldest entry instead of the latest.
FirstOf(list) == list[1]

\* appliedList[appliedList.length - 1]
LastOf(list) == list[Len(list)]

\* Enter the migration at position j of a migrateUp() run, or return; snap
\* is the backend as that migration finds it.
StartUp(j, applied, snap) ==
  IF j = 0
  THEN /\ Finish("ok")
       /\ UNCHANGED unit
  ELSE /\ appliedSet' = applied
       /\ mi' = j
       /\ oi' = 1
       /\ pc' = IF Len(migrations[j].up) = 0 THEN "record" ELSE "exec"
       /\ unit' = snap
       /\ UNCHANGED << result, thrown, synced, upStart >>

\* Enter the migration at position j of a migrateDown() run.
StartDown(j, applied) ==
  /\ appliedSet' = applied
  /\ mi' = j
  /\ oi' = 1
  /\ pc' = IF Len(migrations[j].down) = 0 THEN "unrecord" ELSE "revert"
  /\ unit' = Snapshot
  /\ UNCHANGED << result, thrown, synced, upStart >>

\* The ledger methods of the Postgres adapter start with await
\* this._connect(), which on first use connects the driver, sets connected
\* and runs ensureMigrationTable(); the other adapters' _connect() only opens
\* the connection.  fail = 1 fails that ensureMigrationTable().
ConnectFirst(fail) ==
  IF adapter = "Postgres" /\ ~connected
  THEN EnsureMigrationTable(adapter, TRUE, ledgerExists, ledger, fail)
  ELSE [exists |-> ledgerExists, ledger |-> ledger, ok |-> TRUE]

\* The statement of a ledger method reaches the backend while no
\* ensureMigrationTable() call has completed.
Unensured(method, done) == IF done THEN unensured ELSE unensured \cup { method }

\* SELECT id FROM _migrations fails when the table is missing; find({}) on a
\* missing MongoDB collection returns no document.
MissingLedger(exists) == ~exists /\ adapter # "MongoDB"

\* const appliedSet = await this.getAppliedMigrations(), then the code up to
\* the next await of the method in flight.
FetchStep ==
  /\ pc = "fetch"
  /\ Has(MethodAt(pc))
  /\ \E fail \in BOOLEAN :
     \E cfail \in IF adapter = "Postgres" /\ ~connected THEN 0..1 ELSE { 0 } :
       LET c == ConnectFirst(cfail)
       IN /\ connected' = (connected \/ adapter = "Postgres")
          /\ ledgerExists' = c.exists
          /\ ensured' = (ensured \/ (adapter = "Postgres" /\ ~connected /\ c.ok))
          /\ unensured' = IF c.ok THEN Unensured(MethodAt(pc), ensured') ELSE unensured
          /\ IF ~c.ok \/ fail \/ MissingLedger(c.exists)
             THEN /\ Throw
                  /\ UNCHANGED unit
             ELSE IF call = "up"
             THEN StartUp(NextPending(1, ledger), ledger, Snapshot)
             ELSE IF call = "down" /\ AppliedList(ledger) # <<>>
             THEN StartDown(LastOf(AppliedList(ledger)), ledger)
             ELSE /\ Finish("ok")
                  /\ UNCHANGED unit
  /\ UNCHANGED << adapter, caps, input, migrations, ledger, lastApplied, tables,
                  indexes, call, log, start >>

Schema == [tables |-> tables, indexes |-> indexes, ok |-> TRUE]

\* A loop that leaves the list after its first operation.
FirstOp(ops, k) == k = 1

\* for (const op of ops): the operation at position k is the last of the
\* list, the loop ends after it.
LastOp(ops, k) == k = Len(ops)

\* await this.adapter.executeOperation(op), for the next op of migration.up
ExecStep ==
  /\ pc = "exec"
  /\ Has(MethodAt(pc))
  /\ LET m == migrations[mi]
         op == m.up[oi]
     IN \E failAt \in FailPoints(adapter, ExecStmts(adapter, op)) :
          LET r == ExecuteOperation(adapter, op, Schema, failAt)
          IN /\ tables' = r.tables
             /\ indexes' = r.indexes
             /\ log' = log \o BackendFault(m.id, oi, ExecStmts(adapter, op), failAt)
                          \o CallEvents("exec", m.id, oi, r.ok)
             /\ IF ~r.ok
                THEN Throw
                ELSE /\ IF LastOp(m.up, oi)
                        THEN pc' = "record" /\ oi' = oi
                        ELSE pc' = "exec" /\ oi' = oi + 1
                     /\ UNCHANGED << result, thrown, appliedSet, mi, synced, upStart >>
  /\ UNCHANGED << adapter, caps, connected, input, migrations, ledgerExists, ledger,
                  lastApplied, call, start, unit, ensured, unensured >>

\* await this.adapter.recordAppliedMigration(migration.id), then the loop up
\* to the next pending migration.
RecordStep ==
  /\ pc = "record"
  /\ Has(MethodAt(pc))
  /\ LET id == migrations[mi].id
     IN \E fail \in BOOLEAN :
          LET ok == ~fail /\ ledgerExists /\ id \notin ledger
          IN /\ log' = log \o << Event("record", id, 0, ok) >>
             /\ unensured' = Unensured(MethodAt(pc), ensured)
             /\ IF ok
                THEN /\ ledger' = LedgerInsert(ledger, id)
                     /\ lastApplied' = id
                     /\ StartUp(NextPending(mi + 1, appliedSet), appliedSet,
                                [Snapshot EXCEPT !.ledger = LedgerInsert(ledger, id),
                                                 !.lastApplied = id])
                ELSE /\ Throw
                     /\ UNCHANGED << ledger, lastApplied, unit >>
  /\ UNCHANGED << adapter, caps, connected, input, migrations, ledgerExists, tables,
                  indexes, call, start, ensured >>

\* await this.adapter.revertOperation(op), for the next op of last.down
RevertStep ==
  /\ pc = "revert"
  /\ Has(MethodAt(pc))
  /\ LET m == migrations[mi]
         op == m.down[oi]
     IN \E failAt \in FailPoints(adapter, RevertStmts(adapter, op)) :
          LET r == RevertOperation(adapter, op, Schema, failAt)
          IN /\ tables' = r.tables
             /\ indexes' = r.indexes
             /\ log' = log \o BackendFault(m.id, oi, RevertStmts(adapter, op), failAt)
                          \o CallEvents("revert", m.id, oi, r.ok)
             /\ IF ~r.ok
                THEN Throw
                ELSE /\ IF LastOp(m.down, oi)
                        THEN pc' = "unrecord" /\ oi' = oi
                        ELSE pc' = "revert" /\ oi' = oi + 1
                     /\ UNCHANGED << result, thrown, appliedSet, mi, synced, upStart >>
  /\ UNCHANGED << adapter, caps, connected, input, migrations, ledgerExists, ledger,
                  lastApplied, call, start, unit, ensured, unensured >>

\* await this.adapter.recordRolledBackMigration(last.id)
UnrecordStep ==
  /\ pc = "unrecord"
  /\ Has(MethodAt(pc))
  /\ LET id == migrations[mi].id
     IN \E fail \in BOOLEAN :
          LET ok == ~fail /\ ledgerExists
          IN /\ log' = log \o << Event("unrecord", id, 0, ok) >>
             /\ unensured' = Unensured(MethodAt(pc), ensured)
             /\ IF ok
                THEN /\ ledger' = LedgerDelete(ledger, id)
                     /\ lastApplied' = IF lastApplied = id THEN <<>> ELSE lastApplied
                     /\ Finish("ok")
                ELSE /\ Throw
                     /\ UNCHANGED << ledger, lastApplied >>
  /\ UNCHANGED << adapter, caps, connected, input, migrations, ledgerExists, tables,
                  indexes, call, start, unit, ensured >>

\* The manager reaches a call of a method its adapter does not have: the
\* call throws before anything more is sent to the backend.
MissingMethodStep ==
  /\ pc \in {"init", "fetch", "exec", "record", "revert", "unrecord"}
  /\ ~Has(MethodAt(pc))
  /\ Throw
  /\ UNCHANGED << adapter, caps, connected, input, migrations, backend, call, log,
                  start, unit, ensured, unensured >>

(***************************************************************************)
(* The ledger calls of an adapter used directly, in any order:              *)
(* ensureMigrationTable, recordAppliedMigration, recordRolledBackMigration. *)
(* The ledger is a bag of records: ledgerRows[id] records carry the id.     *)
(***************************************************************************)
\* Most records with one id the model lets the ledger hold.
MaxCopies == 2

VARIABLES
  ledgerUnique,   \* the ledger has its primary key / unique index on id
  ledgerRows,     \* number of ledger records per id
  lgCall,         \* the last adapter call: [op, id, ok]
  lgBefore        \* ledgerRows when that call started

lgvars == << ledgerUnique, ledgerRows, lgCall, lgBefore >>

NoRows == [id \in Ids |-> 0]

LgInit ==
  /\ ledgerUnique = FALSE
  /\ ledgerRows = NoRows
  /\ lgCall = [op |-> "none", id |-> <<>>, ok |-> TRUE]
  /\ lgBefore = NoRows

\* The ids that fetchAppliedIds() returns, as a set.
IdsOf(rows) == { id \in Ids : rows[id] > 0 }

\* Whether the ledger has its unique key after ensureMigrationTable() ended
\* with result r: the SQL adapters create the table with id as PRIMARY KEY
\* in one statement; the MongoDB adapter creates the unique index with a
\* second call, and only in the run that created the collection.
UniqueAfterEnsure(kind, existed, unique, r) ==
  IF existed THEN unique
  ELSE IF ~r.exists THEN FALSE
  ELSE IF kind = "MongoDB" THEN r.ok
  ELSE TRUE

\* The state of the ledger after _connect() of the Postgres adapter, which
\* runs ensureMigrationTable() on first use; the other adapters' _connect()
\* only opens the connection.
AfterConnect(kind, conn, exists, unique, rows, fail) ==
  IF kind = "Postgres" /\ ~conn
  THEN LET r == EnsureMigrationTable(kind, TRUE, exists, IdsOf(rows), fail)
       IN [exists |-> r.exists, ok |-> r.ok,
           unique |-> UniqueAfterEnsure(kind, exists, unique, r)]
  ELSE [exists |-> exists, ok |-> TRUE, unique |-> unique]

LgFrame ==
  UNCHANGED << adapter, caps, input, migrations, lastApplied, tables, indexes,
               call, pc, appliedSet, mi, oi, result, thrown, log, start, unit,
               synced, upStart, ensured, unensured >>

\* adapter.ensureMigrationTable()
LgEnsure ==
  /\ \E fail \in 0..2 :
       LET r == EnsureMigrationTable(adapter, connected, ledgerExists,
                                     IdsOf(ledgerRows), fail)
       IN /\ ledgerExists' = r.exists
          /\ ledgerUnique' = UniqueAfterEnsure(adapter, ledgerExists, ledgerUnique, r)
          /\ ledgerRows' = [id \in Ids |-> IF id \in r.ledger THEN ledgerRows[id] ELSE 0]
          /\ lgCall' = [op |-> "ensure", id |-> <<>>, ok |-> r.ok]
  /\ ledger' = IdsOf(ledgerRows')
  /\ lgBefore' = ledgerRows
  /\ UNCHANGED connected
  /\ LgFrame

\* adapter.recordAppliedMigration(id): _connect(), then the insert.  A key on
\* id rejects a second record with the same id; MongoDB creates a missing
\* collection on insert, with no index.
LgRecord(id) ==
  /\ ledgerRows[id] < MaxCopies
  /\ \E fail \in 0..2 :
       LET c == AfterConnect(adapter, connected, ledgerExists, ledgerUnique,
                             ledgerRows, IF fail = 1 THEN 1 ELSE 0)
           implicit == adapter = "MongoDB" /\ ~c.exists
           ok == /\ c.ok
                 /\ fail # 2
                 /\ c.exists \/ implicit
                 /\ ~(c.unique /\ ledgerRows[id] > 0)
       IN /\ ledgerExists' = (c.exists \/ (ok /\ implicit))
          /\ ledgerUnique' = c.unique
          /\ ledgerRows' = IF ok THEN [ledgerRows EXCEPT ![id] = @ + 1] ELSE ledgerRows
          /\ lgCall' = [op |-> "record", id |-> id, ok |-> ok]
  /\ connected' = (connected \/ adapter = "Postgres")
  /\ ledger' = IdsOf(ledgerRows')
  /\ lgBefore' = ledgerRows
  /\ LgFrame

\* adapter.recordRolledBackMigration(id): _connect(), then DELETE ... WHERE
\* id = ? (every record with the id) or, with MongoDB, deleteOne (one record).
LgRolledBack(id) ==
  /\ \E fail \in 0..2 :
       LET c == AfterConnect(adapter, connected, ledgerExists, ledgerUnique,
                             ledgerRows, IF fail = 1 THEN 1 ELSE 0)
           ok == /\ c.ok
                 /\ fail # 2
                 /\ c.exists \/ adapter = "MongoDB"
       IN /\ ledgerExists' = c.exists
          /\ ledgerUnique' = c.unique
          /\ ledgerRows' =
               IF ~ok THEN ledgerRows
               ELSE IF adapter = "MongoDB"
               THEN [ledgerRows EXCEPT ![id] = IF @ > 0 THEN @ - 1 ELSE 0]
               ELSE [ledgerRows EXCEPT ![id] = 0]
          /\ lgCall' = [op |-> "rolledBack", id |-> id, ok |-> ok]
  /\ connected' = (connected \/ adapter = "Postgres")
  /\ ledger' = IdsOf(ledgerRows')
  /\ lgBefore' = ledgerRows
  /\ LgFrame

(***************************************************************************)
(* The Operation builder.  Names and index column tokens are strings,       *)
(* modelled as sequences of characters; a column, an index or an options    *)
(* object is a function from its property names to their values, so that a  *)
(* property that was never set is absent from its domain.                   *)
(***************************************************************************)
\* Most builder calls made on one Operation.
MaxCalls == 2

\* Longest column list handed to addIndex.
MaxTokens == 2

\* The string a.toUpperCase() character by character.
UpperOf(c) ==
  CASE c = "a" -> "A" [] c = "b" -> "B" [] c = "c" -> "C" [] c = "d" -> "D"
    [] c = "e" -> "E" [] c = "i" -> "I" [] c = "s" -> "S" [] c = "t" -> "T"
    [] OTHER -> c

\* col.toUpperCase()
ToUpperCase(str) == [i \in 1..Len(str) |-> UpperOf(str[i])]

\* str.endsWith(suffix)
EndsWith(str, suffix) ==
  /\ Len(str) >= Len(suffix)
  /\ SubSeq(str, Len(str) - Len(suffix) + 1, Len(str)) = suffix

\* str.slice(0, -n)
SliceEnd(str, n) == IF Len(str) > n THEN SubSeq(str, 1, Len(str) - n) ELSE <<>>

RECURSIVE TrimStart(_)
TrimStart(str) ==
  IF str # <<>> /\ Head(str) = " " THEN TrimStart(Tail(str)) ELSE str

RECURSIVE TrimEnd(_)
TrimEnd(str) ==
  IF str # <<>> /\ str[Len(str)] = " "
  THEN TrimEnd(SubSeq(str, 1, Len(str) - 1))
  ELSE str

\* str.trim()
Trim(str) == TrimEnd(TrimStart(str))

\* { ...a, ...b }: the properties of b win.
Spread(a, b) ==
  [k \in DOMAIN a \cup DOMAIN b |-> IF k \in DOMAIN b THEN b[k] ELSE a[k]]

\* options = {}
EmptyOptions == [k \in {} |-> TRUE]

PRIMARY == [primary |-> TRUE]

\* options.primary is truthy
IsPrimary(options) == "primary" \in DOMAIN options /\ options.primary

\* Operation.createTable(name)
CreateTable(name) == [tableName |-> name, columns |-> <<>>, indexes |-> <<>>]

\* One element of columns.map(...) in addIndex.
IndexColumn(col) ==
  IF EndsWith(ToUpperCase(col), << " ", "D", "E", "S", "C" >>)
  THEN [name |-> Trim(SliceEnd(col, 5)), order |-> "DESC"]
  ELSE [name |-> col, order |-> "ASC"]

\* addIndex(name, columns, options)
AddIndex(p, name, columns, options) ==
  [p EXCEPT !.indexes =
     Append(@, Spread([name |-> name,
                       columns |-> [i \in 1..Len(columns) |-> IndexColumn(columns[i])]],
                      options))]

\* `${this.params.tableName}_${name}_pk`
PkName(table, name) == table \o << "_" >> \o name \o << "_", "p", "k" >>

\* The body shared by addInteger, addNumber, addBoolean, addDate, addTime,
\* addTimestamp and addVarChar: col = { ...base, ...options }; a primary
\* column gets required = true and its index, pushed before the column.
AddTyped(p, base, options) ==
  LET col == Spread(base, options)
      withIndex ==
        IF IsPrimary(options)
        THEN AddIndex(p, PkName(p.tableName, base.name), << base.name >>,
                      [primary |-> TRUE, unique |-> TRUE])
        ELSE p
  IN [withIndex EXCEPT !.columns =
        Append(@, IF IsPrimary(options) THEN Spread(col, [required |-> TRUE]) ELSE col)]

AddInteger(p, name, options) == AddTyped(p, [name |-> name, type |-> "INTEGER"], options)

AddNumber(p, name, options) == AddTyped(p, [name |-> name, type |-> "NUMERIC"], options)

AddBoolean(p, name, options) == AddTyped(p, [name |-> name, type |-> "BOOLEAN"], options)

AddDate(p, name, options) == AddTyped(p, [name |-> name, type |-> "DATE"], options)

AddTime(p, name, options) == AddTyped(p, [name |-> name, type |-> "TIME"], options)

AddTimestamp(p, name, options) == AddTyped(p, [name |-> name, type |-> "TIMESTAMP"], options)

AddVarChar(p, name, length, options) ==
  AddTyped(p, [name |-> name, type |-> "VARCHAR", length |-> length], options)

\* addPrimary(name): the column is pushed, then its index.
AddPrimary(p, name) ==
  AddIndex([p EXCEPT !.columns =
              Append(@, [name |-> name, type |-> "INTEGER", primary |-> TRUE,
                         required |-> TRUE, unique |-> TRUE, autoIncrement |-> TRUE])],
           PkName(p.tableName, name), << name >>, [primary |-> TRUE, unique |-> TRUE])

\* A pair pushed in the other order.
UpdatedThenCreated(p) ==
  [p EXCEPT !.columns =
     @ \o << [name |-> << "u", "p", "d", "a", "t", "e", "d", "_", "a", "t" >>,
              type |-> "TIMESTAMP", required |-> FALSE, default |-> "null"],
            [name |-> << "c", "r", "e", "a", "t", "e", "d", "_", "a", "t" >>,
              type |-> "TIMESTAMP", required |-> TRUE, default |-> "NOW()"] >>]

\* addTimestamps()
AddTimestamps(p) ==
  [p EXCEPT !.columns =
     @ \o << [name |-> << "c", "r", "e", "a", "t", "e", "d", "_", "a", "t" >>,
              type |-> "TIMESTAMP", required |-> TRUE, default |-> "NOW()"],
            [name |-> << "u", "p", "d", "a", "t", "e", "d", "_", "a", "t" >>,
              type |-> "TIMESTAMP", required |-> FALSE, default |-> "null"] >>]

\* The typed column methods by name.
TypedMethods ==
  { "addInteger", "addNumber", "addBoolean", "addDate", "addTime",
    "addTimestamp", "addVarChar" }

ApplyTyped(method, p, name, options) ==
  CASE method = "addInteger" -> AddInteger(p, name, options)
    [] method = "addNumber" -> AddNumber(p, name, options)
    [] method = "addBoolean" -> AddBoolean(p, name, options)
    [] method = "addDate" -> AddDate(p, name, options)
    [] method = "addTime" -> AddTime(p, name, options)
    [] method = "addTimestamp" -> AddTimestamp(p, name, options)
    [] method = "addVarChar" -> AddVarChar(p, name, 50, options)

\* Inputs of the builder calls.
TableNames == { << "t" >>, << "t", "2" >> }

ColumnNames == { << "i", "d" >>, << "a", " ", "D", "E", "S", "C" >> }

OptionSets == { EmptyOptions, PRIMARY }

Tokens ==
  { << "a" >>,
    << "b", " ", "D", "E", "S", "C" >>,
    << " ", "b", " ", " ", "d", "e", "s", "c" >>,
    << "b", " ", "D", "e", "s", "c", " " >> }

TokenLists == UNION { [1..n -> Tokens] : n \in 1..MaxTokens }

VARIABLES
  params,      \* Operation.params of the builder
  finalized,   \* finalize() has been called
  handed,      \* Operation.params when finalize() returned
  ncalls,      \* builder calls made so far
  lastCall,    \* the last builder call: [method, name, columns, options]
  before       \* Operation.params when that call started

opvars == << params, finalized, handed, ncalls, lastCall, before >>

NoCall == [method |-> "none", name |-> <<>>, columns |-> <<>>, options |-> EmptyOptions]

OpIdle ==
  /\ params = CreateTable(<< "t" >>)
  /\ finalized = FALSE
  /\ handed = CreateTable(<< "t" >>)
  /\ ncalls = 0
  /\ lastCall = NoCall
  /\ before = CreateTable(<< "t" >>)

\* const op = Operation.createTable(name)
OpInit ==
  /\ params \in { CreateTable(t) : t \in TableNames }
  /\ finalized = FALSE
  /\ handed = params
  /\ ncalls = 0
  /\ lastCall = NoCall
  /\ before = params

\* One builder call that changes params to built.
BuilderCall(method, name, columns, options, built) ==
  /\ ncalls < MaxCalls
  /\ params' = built
  /\ ncalls' = ncalls + 1
  /\ lastCall' = [method |-> method, name |-> name, columns |-> columns,
                  options |-> options]
  /\ before' = params
  /\ UNCHANGED << finalized, handed >>

TypedCall ==
  \E method \in TypedMethods, name \in ColumnNames, options \in OptionSets :
    BuilderCall(method, name, <<>>, options, ApplyTyped(method, params, name, options))

PrimaryCall ==
  \E name \in ColumnNames :
    BuilderCall("addPrimary", name, <<>>, EmptyOptions, AddPrimary(params, name))

TimestampsCall ==
  BuilderCall("addTimestamps", <<>>, <<>>, EmptyOptions, AddTimestamps(params))

IndexCall ==
  \E columns \in TokenLists :
    BuilderCall("addIndex", << "i", "x" >>, columns, EmptyOptions,
                AddIndex(params, << "i", "x" >>, columns, EmptyOptions))

\* finalize(): return this.  The caller holds the builder object itself.
Finalize ==
  /\ ~finalized
  /\ finalized' = TRUE
  /\ handed' = params
  /\ lastCall' = [NoCall EXCEPT !.method = "finalize"]
  /\ before' = params
  /\ UNCHANGED << params, ncalls >>

(***************************************************************************)
(* The adapters' own checks of an operation handed to executeOperation /    *)
(* revertOperation.  An operation object is [type, ptype, params]:          *)
(* operation.type, operation.params.type ("undefined" when never set) and   *)
(* the builder's params.                                                    *)
(***************************************************************************)
\* The column types the builder produces.
ColumnTypes ==
  { "INTEGER", "NUMERIC", "BOOLEAN", "VARCHAR", "DATE", "TIMESTAMP", "TIME" }

\* The operation kinds MigrationAdapterPostgres.executeOperation dispatches.
PostgresKinds ==
  { "createTable", "dropTable", "renameTable", "addColumn", "dropColumn",
    "alterColumn", "renameColumn", "createIndex", "dropIndex",
    "createForeignKey", "dropForeignKey" }

\* What Operation.createTable(...)...finalize() hands over: the builder sets
\* neither this.type nor this.params.type.
Built(p) == [type |-> "undefined", ptype |-> "undefined", params |-> p]

\* A descriptor written by hand with its kind set.
Typed(kind, p) == [type |-> kind, ptype |-> kind, params |-> p]

\* The types of the columns of p that the switch on col.type does not know,
\* in column order.
UnknownTypes(p) ==
  SelectSeq([i \in 1..Len(p.columns) |-> p.columns[i].type],
            LAMBDA t : t \notin ColumnTypes)

\* No check of the adapter rejected the operation; sent statements went to
\* the backend with the operation's kind and column types as they are.
Unchecked(sent) == [error |-> "none", named |-> "none", sent |-> sent]

\* throw new Error(`Unsupported ${what} type: ${named}`) after sent statements
\* were sent to the backend.
Unsupported(what, named, sent) == [error |-> what, named |-> named, sent |-> sent]

\* executeOperation(op) up to the end of the adapter's own checks: the knex
\* SQL adapter tests params.type, then each col.type while the table builder
\* runs, before anything is sent; the Postgres adapter switches on
\* operation.type inside driver.transaction, after BEGIN; the SQLite, MySQL
\* and MongoDB adapters test nothing and send CREATE TABLE.
CheckExecute(kind, op) ==
  CASE kind = "SQL" ->
         IF op.ptype # "createTable" THEN Unsupported("operation", op.ptype, 0)
         ELSE IF UnknownTypes(op.params) # <<>>
         THEN Unsupported("column", Head(UnknownTypes(op.params)), 0)
         ELSE Unchecked(1)
    [] kind = "Postgres" ->
         IF op.type \notin PostgresKinds THEN Unsupported("operation", op.type, 1)
         ELSE Unchecked(2)
    [] OTHER -> Unchecked(1)

\* revertOperation(op) likewise: no adapter throws for a kind or a type; the
\* Postgres adapter warns on an unknown operation.type, between BEGIN and
\* COMMIT.
CheckRevert(kind, op) ==
  CASE kind = "Postgres" -> Unchecked(2)
    [] kind = "SQL" -> Unchecked(1)
    [] OTHER -> Unchecked(Len(SelectSeq(op.params.indexes, LAMBDA x : ~IsPrimary(x))))

\* idx.unique is truthy
IsUnique(idx) == "unique" \in DOMAIN idx /\ idx.unique

\* idx.where is truthy: the index carries a filter predicate.
HasWhere(idx) == "where" \in DOMAIN idx

\* No WHERE clause on the statement.
NoWhere == <<>>

\* One index the backend is asked to create, by a statement or call of its
\* own: CREATE [UNIQUE] INDEX name ON t (keys) [WHERE where].
IndexRequest(name, unique, where, keys) ==
  [name |-> name, unique |-> unique, where |-> where, keys |-> keys]

\* idx.columns as the relational adapters render them: the name, and DESC
\* only when c.order === "DESC".
OrderedKeys(idx) ==
  [i \in 1..Len(idx.columns) |->
     [name |-> idx.columns[i].name,
      order |-> IF idx.columns[i].order = "DESC" THEN "DESC" ELSE "ASC"]]

\* idx.columns.map(c => c.name): the knex SQL adapter passes the names only.
NamedKeys(idx) ==
  [i \in 1..Len(idx.columns) |-> [name |-> idx.columns[i].name, order |-> "ASC"]]

\* indexSpec[col.name] = col.order === "DESC" ? -1 : 1
KeyPattern(idx) ==
  [i \in 1..Len(idx.columns) |->
     [name |-> idx.columns[i].name,
      order |-> IF idx.columns[i].order = "DESC" THEN -1 ELSE 1]]

\* The name of an index created by createIndex(indexSpec, { unique }) with no
\* name option: the key pattern joined by underscores, as in "a_1_b_-1".
RECURSIVE KeyPatternName(_)
KeyPatternName(keys) ==
  IF keys = <<>> THEN <<>>
  ELSE LET part == Head(keys).name \o << "_" >> \o
                   (IF Head(keys).order = -1 THEN << "-", "1" >> ELSE << "1" >>)
       IN IF Len(keys) = 1 THEN part
          ELSE part \o << "_" >> \o KeyPatternName(Tail(keys))

\* CREATE ${unique} INDEX ... (${cols}): the loop body shared by the SQLite,
\* MySQL and Postgres createTable code; idx.where is not read.
PlainIndex(idx) == IndexRequest(idx.name, IsUnique(idx), NoWhere, OrderedKeys(idx))

\* The loop body of the knex SQL adapter: on a pg client an index with a
\* where predicate is written as raw CREATE UNIQUE INDEX ... WHERE, whatever
\* idx.unique says; any other index goes through table.index with "unique"
\* when idx.unique is set, and idx.where is dropped.
KnexIndex(clientName, idx) ==
  IF clientName = "pg" /\ HasWhere(idx)
  THEN IndexRequest(idx.name, TRUE, idx.where, NamedKeys(idx))
  ELSE IndexRequest(idx.name, IsUnique(idx), NoWhere, NamedKeys(idx))

\* createIndex(indexSpec, { unique: idx.unique || false }), for every index
\* of the operation, the primary ones included.
MongoIndex(idx) ==
  IndexRequest(KeyPatternName(KeyPattern(idx)), IsUnique(idx), NoWhere, KeyPattern(idx))

\* The index-creation requests of executeOperation(op), in the order issued,
\* on a backend that accepts every statement.
IndexRequests(kind, clientName, op) ==
  LET all == op.params.indexes
      np == SelectSeq(all, LAMBDA x : ~IsPrimary(x))
  IN CASE kind = "SQL" ->
            IF op.ptype # "createTable" \/ UnknownTypes(op.params) # <<>> THEN <<>>
            ELSE [i \in 1..Len(np) |-> KnexIndex(clientName, np[i])]
       [] kind = "Postgres" ->
            IF op.type # "createTable" THEN <<>>
            ELSE [i \in 1..Len(np) |-> PlainIndex(np[i])]
       [] kind = "MongoDB" -> [i \in 1..Len(all) |-> MongoIndex(all[i])]
       [] OTHER -> [i \in 1..Len(np) |-> PlainIndex(np[i])]

\* The operation as the statement model reads it: its table, its kind and
\* each index's name and primary flag.
StatementView(op) ==
  [tableName |-> op.params.tableName, type |-> op.type,
   indexes |-> [i \in 1..Len(op.params.indexes) |->
                  Index(op.params.indexes[i].name, IsPrimary(op.params.indexes[i]))]]

\* A backend with no user table.
EmptySchema == [tables |-> {}, indexes |-> {}, ok |-> TRUE]

\* A table with its key, a descending index and an index filtered by a where
\* predicate, unique or not, as in test/_migrations/20260215_create_auth_table.js.
Filtered(t, options) ==
  AddIndex(
    AddIndex(AddVarChar(AddPrimary(CreateTable(t), << "i", "d" >>),
                        << "a" >>, 50, EmptyOptions),
             << "i", "x" >>, << << "a", " ", "D", "E", "S", "C" >> >>, EmptyOptions),
    << "u", "x" >>, << << "a" >> >>, options)

\* where: "w", with and without unique: true.
FilterOptions == { [where |-> << "w" >>], [unique |-> TRUE, where |-> << "w" >>] }

\* client.config.client of the knex instance handed to the SQL adapter.
KnexClients == { "pg", "sqlite3" }

\* A table with one column of each builder type, its key and an index.
SevenTypes(t) ==
  AddIndex(
    AddVarChar(AddTime(AddTimestamp(AddDate(AddBoolean(AddNumber(AddInteger(
      AddPrimary(CreateTable(t), << "i", "d" >>),
      << "a" >>, EmptyOptions), << "a" >>, EmptyOptions), << "a" >>, EmptyOptions),
      << "a" >>, EmptyOptions), << "a" >>, EmptyOptions), << "a" >>, EmptyOptions),
      << "a" >>, 50, EmptyOptions),
    << "i", "x" >>, << << "a" >> >>, EmptyOptions)

\* The same with a column of a type no adapter maps, pushed by hand.
WithJson(t) ==
  [SevenTypes(t) EXCEPT !.columns = Append(@, [name |-> << "a" >>, type |-> "JSON"])]

\* The operations handed to the adapters.
Descriptors ==
  LET ps == UNION { { CreateTable(t), SevenTypes(t), WithJson(t) }
                      \cup { Filtered(t, o) : o \in FilterOptions } : t \in TableNames }
  IN { Built(p) : p \in ps }
     \cup { Typed(k, p) : k \in { "createTable", "dropTable", "truncateTable" }, p \in ps }

VARIABLES
  xlate   \* the last adapter call: [kind, clientName, method, op, res, requests,
          \* stmts, db]

xvars == << xlate >>

XInit ==
  xlate = [kind |-> "none", clientName |-> "none", method |-> "none",
           op |-> Built(CreateTable(<< "t" >>)), res |-> Unchecked(0),
           requests |-> <<>>, stmts |-> <<>>, db |-> EmptySchema]

\* executeOperation(op) on a backend with no user table.
XExecute ==
  \E kind \in AdapterKinds, op \in Descriptors :
    \E c \in IF kind = "SQL" THEN KnexClients ELSE { "none" } :
      xlate' = [kind |-> kind, clientName |-> c, method |-> "executeOperation", op |-> op,
                res |-> CheckExecute(kind, op),
                requests |-> IndexRequests(kind, c, op),
                stmts |-> ExecStmts(kind, StatementView(op)),
                db |-> ExecuteOperation(kind, StatementView(op), EmptySchema, 0)]

\* revertOperation(op) on the backend executeOperation(op) left.
XRevert ==
  \E kind \in AdapterKinds, op \in Descriptors :
    \E c \in IF kind = "SQL" THEN KnexClients ELSE { "none" } :
      xlate' = [kind |-> kind, clientName |-> c, method |-> "revertOperation", op |-> op,
                res |-> CheckRevert(kind, op),
                requests |-> <<>>,
                stmts |-> RevertStmts(kind, StatementView(op)),
                db |-> RevertOperation(kind, StatementView(op),
                         ExecuteOperation(kind, StatementView(op), EmptySchema, 0), 0)]

(***************************************************************************)
(* Two migrateUp() invocations interleaved on one backend: each runner has *)
(* its own MigrationManager over the same migration list and its own       *)
(* adapter of the same kind; the ledger, the tables and the indexes are    *)
(* shared, and the runners interleave at their awaits.                     *)
(***************************************************************************)
Runners == 1..2

\* The ids of a migration list.
KnownIdsOf(list) == { list[i].id : i \in 1..Len(list) }

VARIABLES
  runners   \* per runner: position in migrateUp(), its appliedSet, the ids it
            \* saw pending, recorded and executed operations of, its result

rvars == << runners >>

Idle(res) ==
  [pc |-> "idle", applied |-> {}, mi |-> 0, oi |-> 0, result |-> res,
   seen |-> {}, recorded |-> {}, ran |-> {}]

RInit == runners = [r \in Runners |-> Idle("none")]

\* The runner's migrateUp() ends with res; what it recorded and ran stays
\* on its record.
RaceFinish(r, res) ==
  [runners[r] EXCEPT !.pc = "idle", !.mi = 0, !.oi = 0, !.result = res]

\* The runner goes on to its next pending migration after position i, or
\* returns.
RaceAdvance(run, i) ==
  LET j == NextPending(i, run.applied)
  IN IF j = 0 THEN [run EXCEPT !.pc = "idle", !.mi = 0, !.oi = 0, !.result = "ok"]
     ELSE [run EXCEPT !.pc = IF Len(migrations[j].up) = 0 THEN "record" ELSE "exec",
                      !.mi = j, !.oi = 1]

\* What a runner's step leaves alone of the managers' and the ledger's state.
RaceFrame ==
  UNCHANGED << adapter, caps, connected, input, migrations, lastApplied, call, pc,
               appliedSet, mi, oi, result, thrown, log, start, unit, synced,
               upStart, ensured, unensured, lgCall, lgBefore >>

\* Both callers construct their manager over the same list.
RaceConstruct(list) ==
  /\ \A r \in Runners : runners[r].pc = "idle"
  /\ Construct(list)
  /\ runners' = [r \in Runners |-> Idle("none")]
  /\ UNCHANGED << ledgerUnique, ledgerRows, lgCall, lgBefore >>

\* A caller invokes migrateUp().
RaceBegin(r) ==
  /\ runners[r].pc = "idle"
  /\ runners' = [runners EXCEPT ![r] = [Idle("none") EXCEPT !.pc = "init"]]
  /\ UNCHANGED << ledgerExists, ledger, tables, indexes, ledgerUnique, ledgerRows >>
  /\ RaceFrame

\* await this._init()
RaceInit(r) ==
  /\ runners[r].pc = "init"
  /\ \E fail \in 0..2 :
       LET e == EnsureMigrationTable(adapter, TRUE, ledgerExists,
                                     IdsOf(ledgerRows), fail)
       IN /\ ledgerExists' = e.exists
          /\ ledgerUnique' = UniqueAfterEnsure(adapter, ledgerExists, ledgerUnique, e)
          /\ runners' = [runners EXCEPT ![r] =
                           IF e.ok THEN [@ EXCEPT !.pc = "fetch"]
                           ELSE RaceFinish(r, "error")]
  /\ UNCHANGED << ledger, tables, indexes, ledgerRows >>
  /\ RaceFrame

\* const appliedSet = await this.getAppliedMigrations(), up to the next await
RaceFetch(r) ==
  /\ runners[r].pc = "fetch"
  /\ \E fail \in BOOLEAN :
       runners' = [runners EXCEPT ![r] =
                     IF fail \/ MissingLedger(ledgerExists)
                     THEN RaceFinish(r, "error")
                     ELSE RaceAdvance([@ EXCEPT !.applied = IdsOf(ledgerRows),
                                                !.seen = KnownIdsOf(migrations)
                                                           \ IdsOf(ledgerRows)], 1)]
  /\ UNCHANGED << ledgerExists, ledger, tables, indexes, ledgerUnique, ledgerRows >>
  /\ RaceFrame

\* await this.adapter.executeOperation(op)
RaceExec(r) ==
  /\ runners[r].pc = "exec"
  /\ LET run == runners[r]
         m == migrations[run.mi]
         op == m.up[run.oi]
     IN \E failAt \in FailPoints(adapter, ExecStmts(adapter, op)) :
          LET x == ExecuteOperation(adapter, op, Schema, failAt)
          IN /\ tables' = x.tables
             /\ indexes' = x.indexes
             /\ runners' = [runners EXCEPT ![r] =
                  IF ~x.ok THEN RaceFinish(r, "error")
                  ELSE [@ EXCEPT !.ran = @ \cup { m.id },
                                 !.pc = IF LastOp(m.up, run.oi) THEN "record" ELSE "exec",
                                 !.oi = IF LastOp(m.up, run.oi) THEN @ ELSE @ + 1]]
  /\ UNCHANGED << ledgerExists, ledger, ledgerUnique, ledgerRows >>
  /\ RaceFrame

\* await this.adapter.recordAppliedMigration(migration.id): the insert is
\* rejected when the ledger has its key on id and holds the id.
RaceRecord(r) ==
  /\ runners[r].pc = "record"
  /\ LET run == runners[r]
         id == migrations[run.mi].id
     IN /\ ledgerRows[id] < MaxCopies
        /\ \E fail \in BOOLEAN :
             LET ok == /\ ~fail
                       /\ ledgerExists
                       /\ ~(ledgerUnique /\ ledgerRows[id] > 0)
             IN /\ ledgerRows' = IF ok THEN [ledgerRows EXCEPT ![id] = @ + 1]
                                 ELSE ledgerRows
                /\ runners' = [runners EXCEPT ![r] =
                     IF ok THEN RaceAdvance([@ EXCEPT !.recorded = @ \cup { id }],
                                            run.mi + 1)
                     ELSE RaceFinish(r, "error")]
  /\ ledger' = IdsOf(ledgerRows')
  /\ UNCHANGED << ledgerExists, tables, indexes, ledgerUnique >>
  /\ RaceFrame

(***************************************************************************)
(* What one sequential caller has seen of its earlier migrateUp() and      *)
(* migrateDown() calls on the manager.                                     *)
(***************************************************************************)
VARIABLES
  last,        \* the migrateUp()/migrateDown() call before the one in flight:
               \* [call, result, failed], failed the id whose operation threw
  rollbacks    \* since the last migrateUp() that returned: [valid, applied,
               \* held, downs], the ids it recorded, the known ids the ledger
               \* held when it returned and the ids the migrateDown() calls
               \* that returned since have removed, in call order

hvars == << last, rollbacks >>

NoLast == [call |-> "none", result |-> "none", failed |-> <<>>]

NoRollbacks == [valid |-> FALSE, applied |-> {}, held |-> {}, downs |-> <<>>]

HInit == last = NoLast /\ rollbacks = NoRollbacks

\* Everything but the manager's state, and everything but the driver's.
offMgr == << txvars, lgvars, opvars, xvars, hvars, rvars >>

offTx == << vars, lgvars, opvars, xvars, hvars, rvars >>

offLg == << txvars, opvars, xvars, hvars, rvars >>

offOp == << vars, txvars, lgvars, xvars, hvars, rvars >>

offX == << vars, txvars, lgvars, opvars, hvars, rvars >>

\* Everything but the manager's state and its caller's.
offCaller == << txvars, lgvars, opvars, xvars, rvars >>

\* Everything but the backend, the managers and the runners.
offRace == << txvars, opvars, xvars, hvars >>

\* The manager over its adapter; the driver of the transaction model is idle.
Init == MgrInit /\ TxInit /\ LgInit /\ OpIdle /\ XInit /\ HInit /\ RInit

Next ==
  \/ (\E list \in IdLists : Construct(list)) /\ UNCHANGED offMgr
  \/ AdapterConnect /\ UNCHANGED offMgr
  \/ (\E c \in {"up", "down", "status"} : Begin(c)) /\ UNCHANGED offMgr
  \/ InitStep /\ UNCHANGED offMgr
  \/ FetchStep /\ UNCHANGED offMgr
  \/ ExecStep /\ UNCHANGED offMgr
  \/ RecordStep /\ UNCHANGED offMgr
  \/ RevertStep /\ UNCHANGED offMgr
  \/ UnrecordStep /\ UNCHANGED offMgr
  \/ MissingMethodStep /\ UNCHANGED offMgr

allvars == << vars, txvars, lgvars, opvars, xvars, hvars, rvars >>

Spec == Init /\ [][Next]_allvars

\* The manager with every public method open to its caller:
\* getAppliedMigrations() besides migrateUp(), migrateDown() and status().
NextPublic ==
  \/ Begin("applied") /\ UNCHANGED offMgr
  \/ Next

SpecPublic == Init /\ [][NextPublic]_allvars

\* Two runners on the adapters whose migrateUp() needs no connect call first.
InitRace == Init /\ caps = AdapterMethods /\ adapter # "Postgres"

NextRace ==
  \/ (\E list \in IdLists : RaceConstruct(list)) /\ UNCHANGED offRace
  \/ (\E r \in Runners : RaceBegin(r)) /\ UNCHANGED offRace
  \/ (\E r \in Runners : RaceInit(r)) /\ UNCHANGED offRace
  \/ (\E r \in Runners : RaceFetch(r)) /\ UNCHANGED offRace
  \/ (\E r \in Runners : RaceExec(r)) /\ UNCHANGED offRace
  \/ (\E r \in Runners : RaceRecord(r)) /\ UNCHANGED offRace

SpecRace == InitRace /\ [][NextRace]_allvars

\* driver.transaction(callback) on a PostgresDriver; no manager is running.
InitTx ==
  /\ MgrInit /\ adapter = "Postgres" /\ caps = AdapterMethods
  /\ TxInit /\ LgInit /\ OpIdle /\ XInit /\ HInit /\ RInit

NextTx ==
  \/ DriverConnect /\ UNCHANGED offTx
  \/ (\E n \in 0..MaxBodyStmts : TxCall(n)) /\ UNCHANGED offTx
  \/ StartTransaction /\ UNCHANGED offTx
  \/ Body /\ UNCHANGED offTx
  \/ CommitTransaction /\ UNCHANGED offTx
  \/ RollbackTransaction /\ UNCHANGED offTx

SpecTx == InitTx /\ [][NextTx]_allvars

\* One adapter's ledger methods called directly, in any order.
InitLedger ==
  MgrInit /\ caps = AdapterMethods /\ TxInit /\ LgInit /\ OpIdle /\ XInit /\ HInit /\ RInit

NextLedger ==
  \/ LgEnsure /\ UNCHANGED offLg
  \/ (\E id \in Ids : LgRecord(id)) /\ UNCHANGED offLg
  \/ (\E id \in Ids : LgRolledBack(id)) /\ UNCHANGED offLg

SpecLedger == InitLedger /\ [][NextLedger]_allvars

\* One Operation under construction by its caller.
InitOp ==
  /\ MgrInit /\ adapter = "SQLite" /\ caps = AdapterMethods
  /\ TxInit /\ LgInit /\ OpInit /\ XInit /\ HInit /\ RInit

NextOp ==
  \/ TypedCall /\ UNCHANGED offOp
  \/ PrimaryCall /\ UNCHANGED offOp
  \/ TimestampsCall /\ UNCHANGED offOp
  \/ IndexCall /\ UNCHANGED offOp
  \/ Finalize /\ UNCHANGED offOp

SpecOp == InitOp /\ [][NextOp]_allvars

\* Operations handed to the adapters' executeOperation / revertOperation.
InitX ==
  /\ MgrInit /\ adapter = "SQLite" /\ caps = AdapterMethods
  /\ TxInit /\ LgInit /\ OpIdle /\ XInit /\ HInit /\ RInit

NextX ==
  \/ XExecute /\ UNCHANGED offX
  \/ XRevert /\ UNCHANGED offX

SpecX == InitX /\ [][NextX]_allvars

(***************************************************************************)
(* Properties of MigrationManager.                                         *)
(***************************************************************************)
Ended == pc = "idle" /\ result # "none"

Returned == pc = "idle" /\ result = "ok"

Threw == pc = "idle" /\ result = "error"

KnownIds == { migrations[i].id : i \in 1..Len(migrations) }

\* Ids whose recordAppliedMigration returned during the call.
RecordedIds == { log[i].id : i \in { j \in 1..Len(log) : log[j].e = "record" /\ log[j].ok } }

\* The lexically greatest id of a non-empty set.
MaxId(S) == CHOOSE x \in S : \A y \in S : LocaleCompare(y, x) <= 0

\* C1: whatever the order of the list given to the constructor, a migrateUp()
\* run touches migrations in non-decreasing id order, and when it has ended
\* the ledger holds exactly the ids it held at the start plus the ids whose
\* migration was processed (all operations and the ledger insert) without error.
C1_UpOrderAndLedger ==
  call = "up" =>
    /\ \A i, j \in 1..Len(log) :
         i < j => LocaleCompare(log[i].id, log[j].id) <= 0
    /\ Ended => ledger = start.ledger \cup RecordedIds

\* A migrateUp() that returned after applying three migrations handed over in
\* an order that is not the id order.
C1_Witness ==
  /\ call = "up"
  /\ Returned
  /\ input # migrations
  /\ Cardinality(RecordedIds) = 3
  /\ start.ledger = {}

\* The id of the migration whose up operation threw, <<>> when none did.
FailedExecId ==
  IF \E i \in 1..Len(log) : log[i].e = "exec" /\ ~log[i].ok
  THEN log[CHOOSE i \in 1..Len(log) : log[i].e = "exec" /\ ~log[i].ok].id
  ELSE <<>>

\* C2: when an up operation throws, migrateUp() aborts: every pending
\* migration with a smaller id is recorded in the ledger, the failing id is
\* not, and nothing was executed or recorded for a migration with a greater id.
C2_UpAbortsOnThrow ==
  (call = "up" /\ Threw /\ FailedExecId # <<>>) =>
    /\ \A id \in KnownIds \ start.ledger :
         LocaleCompare(id, FailedExecId) < 0 => id \in ledger
    /\ FailedExecId \notin ledger
    /\ \A i \in 1..Len(log) : LocaleCompare(log[i].id, FailedExecId) <= 0
    /\ Cardinality({ i \in 1..Len(log) : log[i].e = "exec" /\ ~log[i].ok }) = 1

\* Pending "10", "2", "21": "10" is recorded, "2" throws, "21" is not attempted.
C2_Witness ==
  /\ call = "up"
  /\ Threw
  /\ FailedExecId = <<2>>
  /\ start.ledger = {}
  /\ KnownIds = Ids
  /\ ledger = { <<1, 0>> }

\* C3: a migration's up-application is atomic: when migrateUp() threw inside a
\* migration, the tables, indexes and ledger are those of the moment that
\* migration started.
C3_UpUnitAtomic ==
  (call = "up" /\ Threw /\ log # <<>>) =>
    /\ tables = unit.tables
    /\ indexes = unit.indexes
    /\ ledger = unit.ledger

\* C4: a migrateUp() that follows a migrateUp() that returned, with the same
\* migration list, calls neither executeOperation nor recordAppliedMigration
\* and leaves the applied-id set unchanged.
C4_UpIdempotent ==
  (call = "up" /\ start.synced) =>
    /\ log = <<>>
    /\ ledger = start.ledger

\* The second migrateUp() returned on a ledger that the first one filled.
C4_Witness ==
  /\ call = "up"
  /\ start.synced
  /\ Returned
  /\ Len(migrations) = 3
  /\ start.ledger = KnownIds
  /\ ledger = KnownIds

\* C5: with a single migration whose id was not applied, the id is in the
\* ledger when migrateUp() has returned, and when the migrateDown() that
\* follows has returned the ledger is again what it was before the up.
C5_LedgerRoundTrip ==
  Len(migrations) = 1 =>
    /\ (call = "up" /\ Returned) => migrations[1].id \in ledger
    /\ (call = "down" /\ Returned /\ start.synced /\ migrations[1].id \notin upStart) =>
         /\ migrations[1].id \in start.ledger
         /\ ledger = upStart

\* migrateUp() then migrateDown() both returned for the single migration "2",
\* next to an id recorded by an earlier manager.
C5_Witness ==
  /\ Len(migrations) = 1
  /\ migrations[1].id = <<2>>
  /\ call = "down"
  /\ Returned
  /\ start.synced
  /\ upStart = { <<2, 1>> }
  /\ ledger = upStart

ScenarioId == <<2, 1>>

\* C7: for the documented scenario, after migrateUp() the table exists and
\* the ledger holds the id, and after the following migrateDown() neither the
\* table nor any of its indexes exists and the id has left the ledger, with
\* every adapter.
C7_SchemaRoundTrip ==
  (KnownIds = {ScenarioId} /\ ScenarioId \notin upStart) =>
    /\ (call = "up" /\ Returned) =>
         /\ TableName(ScenarioId, 1) \in tables
         /\ ScenarioId \in ledger
    /\ (call = "down" /\ Returned /\ start.synced) =>
         /\ TableName(ScenarioId, 1) \notin tables
         /\ \A x \in indexes : x.t # TableName(ScenarioId, 1)
         /\ ScenarioId \notin ledger

\* C8 as stated: no step of status() changes the backend (the existence of
\* the ledger included) or the manager's migration list.
C8_StatusMutatesNothing ==
  [][(call = "status" /\ pc # "idle") =>
       (backend' = backend /\ migrations' = migrations)]_allvars

\* C8 amended: status() leaves the applied-id set, the user tables, the
\* indexes and the migration list unchanged and never removes the ledger; the
\* one change it can make is creating the ledger when absent.
C8_StatusKeepsContents ==
  [][(call = "status" /\ pc # "idle") =>
       /\ ledger' = ledger
       /\ lastApplied' = lastApplied
       /\ tables' = tables
       /\ indexes' = indexes
       /\ migrations' = migrations
       /\ input' = input
       /\ (ledgerExists => ledgerExists')]_allvars

\* status() returned on a backend holding applied ids and tables.
C8_Witness ==
  /\ call = "status"
  /\ Returned
  /\ ledger = { <<2>> }
  /\ tables # {}

\* Number of log entries of kind e.
Count(e) == Cardinality({ i \in 1..Len(log) : log[i].e = e })

\* The entry at position i lies inside an open transaction.
InsideTransaction(i) ==
  \E b \in 1..(i - 1) :
    /\ log[b].e = "begin"
    /\ \A c \in (b + 1)..(i - 1) : log[c].e \notin {"commit", "rollback"}

\* C9: a migrateUp()/migrateDown() run opens exactly one transaction per
\* migration it applies or reverts, every operation and the ledger write of
\* the migration happen inside it, and no transaction is opened while another
\* is open.
C9_OneTransactionPerMigration ==
  (call \in {"up", "down"} /\ Ended) =>
    /\ Count("begin") = Cardinality({ log[i].id : i \in 1..Len(log) })
    /\ \A i \in 1..Len(log) :
         log[i].e \in {"exec", "record", "revert", "unrecord"} => InsideTransaction(i)
    /\ \A i \in 1..Len(log) :
         log[i].e = "begin" => ~InsideTransaction(i)

\* The id of the migration whose down operation threw, <<>> when none did.
FailedRevertId ==
  IF \E i \in 1..Len(log) : log[i].e = "revert" /\ ~log[i].ok
  THEN log[CHOOSE i \in 1..Len(log) : log[i].e = "revert" /\ ~log[i].ok].id
  ELSE <<>>

\* C11: when an up operation of migration m fails, the error migrateUp()
\* throws is a MigrationApplyError carrying m's id and the original cause; when
\* a down operation of m fails, migrateDown() throws a MigrationRevertError
\* carrying m's id.
C11_ErrorNamesMigration ==
  /\ (call = "up" /\ Threw /\ FailedExecId # <<>>) =>
       /\ thrown.name = "MigrationApplyError"
       /\ thrown.id = FailedExecId
       /\ thrown.cause # "none"
  /\ (call = "down" /\ Threw /\ FailedRevertId # <<>>) =>
       /\ thrown.name = "MigrationRevertError"
       /\ thrown.id = FailedRevertId

\* C12: a backend error raised while reverting, other than the drop of an
\* index that does not exist, reaches the caller of migrateDown(), and the
\* ledger record is not deleted.
C12_RevertRethrowsBackendErrors ==
  (call = "down" /\ \E i \in 1..Len(log) : log[i].e = "fault") =>
    /\ ledger = start.ledger
    /\ Ended => Threw

\* The capabilities an adapter is required to have.
RequiredCapabilities == AdapterMethods \cup { "transaction" }

\* C15: an adapter lacking a required capability is rejected by the
\* MigrationManager constructor, and a missing capability is never discovered
\* by a call that has already reached the backend.
C15_ContractCheckedAtConstruction ==
  (RequiredCapabilities \ caps # {}) =>
    /\ ~(call = "new" /\ result = "ok")
    /\ (Threw /\ thrown.origin \in RequiredCapabilities) =>
         /\ ledgerExists = start.ledgerExists
         /\ tables = start.tables
         /\ indexes = start.indexes
         /\ log = <<>>

\* C14: ensureMigrationTable(), however often it is called between the record
\* calls, never changes the set of recorded ids; the ledger never holds more
\* than one record per id; recording an id that is already present fails and
\* adds nothing.
C14_LedgerIdempotentAndUnique ==
  /\ \A id \in Ids : ledgerRows[id] <= 1
  /\ lgCall.op = "ensure" => IdsOf(ledgerRows) = IdsOf(lgBefore)
  /\ (lgCall.op = "record" /\ lgBefore[lgCall.id] > 0) =>
       (~lgCall.ok /\ ledgerRows = lgBefore)

(***************************************************************************)
(* Properties of the Operation builder.                                     *)
(***************************************************************************)
\* The index the last call pushed.
LastIndex == params.indexes[Len(params.indexes)]

\* The property key of record r is set to TRUE.
IsTrue(r, key) == key \in DOMAIN r /\ r[key] = TRUE

\* C16: addPrimary(name) appends exactly one column {name, INTEGER, primary,
\* required, unique, autoIncrement} and exactly one index "{table}_{name}_pk"
\* with columns [{name, ASC}], primary and unique, and leaves the earlier
\* columns and indexes as they were.
C16_AddPrimaryColumnAndIndex ==
  lastCall.method = "addPrimary" =>
    /\ params.tableName = before.tableName
    /\ params.columns =
         Append(before.columns,
                [name |-> lastCall.name, type |-> "INTEGER", primary |-> TRUE,
                 required |-> TRUE, unique |-> TRUE, autoIncrement |-> TRUE])
    /\ params.indexes =
         Append(before.indexes,
                [name |-> before.tableName \o << "_" >> \o lastCall.name
                            \o << "_", "p", "k" >>,
                 columns |-> << [name |-> lastCall.name, order |-> "ASC"] >>,
                 primary |-> TRUE, unique |-> TRUE])

\* C17: after any sequence of builder calls every column with primary:true
\* has required:true and unique:true, and the index list holds exactly one
\* index "{table}_{column}_pk" with primary:true and unique:true for it.
C17_PrimaryColumnsRequiredUniqueIndexed ==
  \A i \in 1..Len(params.columns) :
    LET c == params.columns[i]
    IN IsTrue(c, "primary") =>
         /\ IsTrue(c, "required")
         /\ IsTrue(c, "unique")
         /\ Cardinality({ j \in 1..Len(params.indexes) :
              /\ params.indexes[j].name =
                   params.tableName \o << "_" >> \o c.name \o << "_", "p", "k" >>
              /\ IsTrue(params.indexes[j], "primary")
              /\ IsTrue(params.indexes[j], "unique") }) = 1

\* The position of the first character of str that is not a space
\* (Len(str) + 1 when there is none), and of the last one (0 when none).
FirstInk(str) ==
  CHOOSE i \in 1..(Len(str) + 1) :
    /\ \A j \in 1..(i - 1) : str[j] = " "
    /\ i = Len(str) + 1 \/ str[i] # " "

LastInk(str) ==
  CHOOSE i \in 0..Len(str) :
    /\ \A j \in (i + 1)..Len(str) : str[j] = " "
    /\ i = 0 \/ str[i] # " "

\* str without its surrounding spaces.
Stripped(str) == SubSeq(str, FirstInk(str), LastInk(str))

\* The last five characters of str are a space and the word DESC in any
\* letter case.
IsDescWord(str) ==
  /\ Len(str) >= 5
  /\ str[Len(str) - 4] = " "
  /\ str[Len(str) - 3] \in { "D", "d" }
  /\ str[Len(str) - 2] \in { "E", "e" }
  /\ str[Len(str) - 1] \in { "S", "s" }
  /\ str[Len(str)] \in { "C", "c" }

\* str without its last five characters.
DropWord(str) == SubSeq(str, 1, Len(str) - 5)

\* C18 as stated: addIndex maps each token, in order, to {name, order}: a
\* token that ends in " DESC" (any letter case) once its surrounding
\* whitespace is trimmed yields DESC and the trimmed name without the suffix,
\* every other token yields ASC and the token as name.
C18_IndexTokens ==
  lastCall.method = "addIndex" =>
    /\ Len(LastIndex.columns) = Len(lastCall.columns)
    /\ \A i \in 1..Len(lastCall.columns) :
         LET token == lastCall.columns[i]
         IN LastIndex.columns[i] =
              IF IsDescWord(Stripped(token))
              THEN [name |-> Stripped(DropWord(Stripped(token))), order |-> "DESC"]
              ELSE [name |-> token, order |-> "ASC"]

\* C19: addTimestamps() appends created_at {TIMESTAMP, required:true,
\* default:"NOW()"} and then updated_at {TIMESTAMP, required:false,
\* default:null} to the end of the column list, adds no index and leaves the
\* earlier columns and the indexes as they were.
C19_AddTimestamps ==
  lastCall.method = "addTimestamps" =>
    /\ params.tableName = before.tableName
    /\ params.indexes = before.indexes
    /\ Len(params.columns) = Len(before.columns) + 2
    /\ SubSeq(params.columns, 1, Len(before.columns)) = before.columns
    /\ params.columns[Len(params.columns) - 1] =
         [name |-> << "c", "r", "e", "a", "t", "e", "d", "_", "a", "t" >>,
          type |-> "TIMESTAMP", required |-> TRUE, default |-> "NOW()"]
    /\ params.columns[Len(params.columns)] =
         [name |-> << "u", "p", "d", "a", "t", "e", "d", "_", "a", "t" >>,
          type |-> "TIMESTAMP", required |-> FALSE, default |-> "null"]

\* addTimestamps() was called on an Operation that had a column and an index.
C19_Witness ==
  /\ lastCall.method = "addTimestamps"
  /\ Len(before.columns) = 1
  /\ Len(before.indexes) = 1
  /\ Len(params.columns) = 3

\* C20: the descriptor finalize() returned is not changed by later builder
\* calls on the same builder.
C20_DescriptorImmutable ==
  finalized => params = handed

(***************************************************************************)
(* Properties of the adapters' operation checks.                            *)
(***************************************************************************)
\* The operation comes from the builder and has only builder column types.
BuilderMade(op) ==
  op.type = "undefined" /\ op.ptype = "undefined" /\ UnknownTypes(op.params) = <<>>

\* C13: executeOperation and revertOperation throw an error naming the
\* offending kind or column type, before any backend statement, for an
\* operation of an unsupported kind or with an unsupported column type, and
\* do not throw it for an operation built with Operation.createTable(...)
\* from the seven column types.
C13_UnsupportedFailsFast ==
  xlate.method # "none" =>
    /\ BuilderMade(xlate.op) => xlate.res.error = "none"
    /\ xlate.op.type = "truncateTable" =>
         /\ xlate.res.error = "operation"
         /\ xlate.res.named = "truncateTable"
         /\ xlate.res.sent = 0
    /\ (xlate.op.type = "createTable" /\ UnknownTypes(xlate.op.params) # <<>>) =>
         /\ xlate.res.error = "column"
         /\ xlate.res.named = "JSON"
         /\ xlate.res.sent = 0

(***************************************************************************)
(* Properties of the ledger writes of MigrationManager.                    *)
(***************************************************************************)
\* The calls e made for migration id before position p of the log.
Earlier(p, e, id) ==
  SelectSeq(SubSeq(log, 1, p - 1), LAMBDA x : x.e = e /\ x.id = id)

\* Every operation of the list of length n, once each, in list order, without
\* error.
AllInOrder(e, id, n) == [k \in 1..n |-> Event(e, id, k, TRUE)]

\* C24: the ledger write is the last step of each migration unit:
\* recordAppliedMigration(m.id) is called only after every operation of m.up
\* was executed in list order without error, recordRolledBackMigration(m.id)
\* only after every operation of m.down was reverted in list order without
\* error; while the operations run, and when one of them throws, the ledger
\* is as it was when the unit started.
C24_LedgerWriteLast ==
  /\ \A p \in 1..Len(log) :
       /\ log[p].e = "record" =>
            Earlier(p, "exec", log[p].id)
              = AllInOrder("exec", log[p].id, Len(Migration(log[p].id).up))
       /\ log[p].e = "unrecord" =>
            Earlier(p, "revert", log[p].id)
              = AllInOrder("revert", log[p].id, Len(Migration(log[p].id).down))
  /\ pc \in {"exec", "revert"} => ledger = unit.ledger
  /\ (Threw /\ thrown.origin \in {"exec", "revert"}) => ledger = unit.ledger

\* A migrateUp() recorded the two-operation migration "2" and then threw in
\* an operation of the next one: the ledger is the one that unit started
\* with, and holds "2".
C24_Witness ==
  /\ call = "up"
  /\ Threw
  /\ thrown.origin = "exec"
  /\ \E p \in 1..Len(log) : log[p] = Event("record", << 2 >>, 0, TRUE)
  /\ ledger = unit.ledger
  /\ ledger # start.ledger

\* C25: no ledger read or write (fetchAppliedIds, recordAppliedMigration,
\* recordRolledBackMigration) issued through a public method of the manager
\* (migrateUp, migrateDown, status, getAppliedMigrations) reaches the backend
\* before an ensureMigrationTable() call has completed on the adapter,
\* whatever method is invoked first.
C25_EnsureBeforeLedgerAccess ==
  unensured = {}

\* The ids of the ledger l that belong to no migration of the manager's list.
Orphans(l) == l \ KnownIds

\* C26: a ledger id that is not in the manager's migration list is never
\* removed and never causes an operation to run: throughout and after a
\* migrateUp(), migrateDown() or status() call it is still in the ledger and
\* every adapter call is made for a known migration; migrateDown() works on
\* the greatest applied id among the known migrations only, and calls
\* nothing and changes nothing when only orphan ids are applied.
C26_OrphansUntouched ==
  call \in {"up", "down", "status"} =>
    /\ Orphans(start.ledger) \subseteq ledger
    /\ \A i \in 1..Len(log) : log[i].id \in KnownIds
    /\ (call = "down" /\ start.ledger \subseteq Orphans(start.ledger)) =>
         /\ log = <<>>
         /\ ledger = start.ledger
         /\ tables = start.tables
         /\ indexes = start.indexes
    /\ (call = "down" /\ Returned /\ ~(start.ledger \subseteq Orphans(start.ledger))) =>
         ledger = start.ledger \ { MaxId(start.ledger \ Orphans(start.ledger)) }

\* migrateDown() returned after reverting "2" while the greater id "21",
\* applied by a manager that knew it, was an orphan: "21" is still applied.
C26_Witness ==
  /\ call = "down"
  /\ Returned
  /\ KnownIds = { <<1, 0>>, <<2>> }
  /\ start.ledger = { <<1, 0>>, <<2>>, <<2, 1>> }
  /\ ledger = { <<1, 0>>, <<2, 1>> }
  /\ \E i \in 1..Len(log) : log[i] = Event("unrecord", << 2 >>, 0, TRUE)

(***************************************************************************)
(* One sequential caller of migrateUp() and migrateDown(), remembering its *)
(* earlier calls.                                                          *)
(***************************************************************************)
\* Ids whose recordRolledBackMigration returned during the call, in order.
Unrecorded(l) ==
  LET done == SelectSeq(l, LAMBDA x : x.e = "unrecord" /\ x.ok)
  IN [i \in 1..Len(done) |-> done[i].id]

\* A new manager is constructed: what the caller saw of the old one's calls
\* says nothing about this one.
Forget == last' = NoLast /\ rollbacks' = NoRollbacks

\* A call begins: the migrateUp()/migrateDown() call that ended before it is
\* the last one; a migrateUp() starts a new count of rollbacks.
Remember ==
  /\ last' = IF call \in {"up", "down"}
             THEN [call |-> call, result |-> result, failed |-> FailedExecId]
             ELSE last
  /\ rollbacks' = IF call' = "up" THEN NoRollbacks ELSE rollbacks

\* A step of the call in flight: when it ends the call, a migrateUp() that
\* returned starts the count with the ids it recorded, a migrateDown() that
\* returned adds the id it removed, and a call that threw ends the count.
Note ==
  /\ last' = last
  /\ rollbacks' =
       IF pc' # "idle" \/ call \notin {"up", "down"} THEN rollbacks
       ELSE IF result' # "ok" THEN NoRollbacks
       ELSE IF call = "up"
       THEN [valid |-> TRUE,
             applied |-> { log'[i].id :
                             i \in { j \in 1..Len(log') :
                                       log'[j].e = "record" /\ log'[j].ok } },
             held |-> ledger' \cap KnownIds,
             downs |-> <<>>]
       ELSE IF rollbacks.valid
       THEN [rollbacks EXCEPT !.downs = @ \o Unrecorded(log')]
       ELSE rollbacks

InitCaller == Init /\ caps = AdapterMethods

NextCaller ==
  \/ (\E list \in IdLists : Construct(list)) /\ Forget /\ UNCHANGED offCaller
  \/ AdapterConnect /\ UNCHANGED hvars /\ UNCHANGED offCaller
  \/ (\E c \in {"up", "down"} : Begin(c)) /\ Remember /\ UNCHANGED offCaller
  \/ InitStep /\ Note /\ UNCHANGED offCaller
  \/ FetchStep /\ Note /\ UNCHANGED offCaller
  \/ ExecStep /\ Note /\ UNCHANGED offCaller
  \/ RecordStep /\ Note /\ UNCHANGED offCaller
  \/ RevertStep /\ Note /\ UNCHANGED offCaller
  \/ UnrecordStep /\ Note /\ UNCHANGED offCaller

SpecCaller == InitCaller /\ [][NextCaller]_allvars

\* The ids of the sequence d.
Range(d) == { d[i] : i \in 1..Len(d) }

\* Each migrateDown() that returned since the migrateUp() removed the
\* greatest id of those still held, so the ids left in strictly descending
\* order; a migrateDown() that returns reverts one migration when a known id
\* is applied and is a no-op otherwise.
OneRollbackPerCall ==
  /\ \A i \in 1..Len(rollbacks.downs) :
       rollbacks.downs[i]
         = MaxId(rollbacks.held \ { rollbacks.downs[j] : j \in 1..(i - 1) })
  /\ \A i, j \in 1..Len(rollbacks.downs) :
       i < j => LocaleCompare(rollbacks.downs[i], rollbacks.downs[j]) > 0
  /\ pc = "idle" => ledger \cap KnownIds = rollbacks.held \ Range(rollbacks.downs)
  /\ (call = "down" /\ Returned) =>
       IF start.ledger \cap KnownIds = {}
       THEN /\ log = <<>>
            /\ ledger = start.ledger
            /\ tables = start.tables
            /\ indexes = start.indexes
       ELSE /\ Len(Unrecorded(log)) = 1
            /\ ledger = start.ledger \ Range(Unrecorded(log))

\* C27 as stated: after a migrateUp() that applied N known migrations
\* without error, N successive migrateDown() calls revert exactly one
\* migration each, in strictly descending id order, and leave no known id in
\* the ledger; every further migrateDown() is a no-op.
C27_DownsUndoUp ==
  rollbacks.valid =>
    /\ OneRollbackPerCall
    /\ Len(rollbacks.downs) <= Cardinality(rollbacks.applied)
    /\ (pc = "idle" /\ Len(rollbacks.downs) = Cardinality(rollbacks.applied)) =>
         ledger \cap KnownIds = {}

\* C27 amended: after a migrateUp() that returned with N known migrations in
\* the ledger, those it applied and those applied before it, N successive
\* migrateDown() calls that return revert exactly one migration each, in
\* strictly descending id order, and leave no known id in the ledger; every
\* further migrateDown() is a no-op.
C27_DownsUndoUpAmended ==
  rollbacks.valid =>
    /\ OneRollbackPerCall
    /\ Len(rollbacks.downs) <= Cardinality(rollbacks.held)
    /\ (pc = "idle" /\ Len(rollbacks.downs) = Cardinality(rollbacks.held)) =>
         ledger \cap KnownIds = {}

\* A migrateUp() applied "2" and "21" next to "10", applied before; three
\* migrateDown() calls removed "21", "2" and "10", and a fourth one returned
\* without a call.
C27_Witness ==
  /\ rollbacks.valid
  /\ rollbacks.applied = { << 2 >>, << 2, 1 >> }
  /\ rollbacks.downs = << << 2, 1 >>, << 2 >>, << 1, 0 >> >>
  /\ call = "down"
  /\ Returned
  /\ log = <<>>

\* The first executeOperation call of the call in flight, when there is one.
FirstExec ==
  log[CHOOSE i \in 1..Len(log) :
        log[i].e = "exec" /\ \A j \in 1..(i - 1) : log[j].e # "exec"]

\* C28: for one sequential caller, an up operation of m is executed only in
\* a migrateUp() at whose start m.id was absent from the ledger, a down
\* operation of m only in a migrateDown() at whose start m.id was present; a
\* retry after a migrateUp() that failed in an operation executes the failing
\* migration first, from its first up operation, and no operation of a
\* recorded migration.
C28_OperationsFollowLedger ==
  /\ \A i \in 1..Len(log) :
       /\ log[i].e = "exec" => call = "up" /\ log[i].id \notin start.ledger
       /\ log[i].e = "revert" => call = "down" /\ log[i].id \in start.ledger
  /\ (call = "up" /\ last.call = "up" /\ last.result = "error" /\ last.failed # <<>>) =>
       /\ last.failed \notin start.ledger
       /\ (\E i \in 1..Len(log) : log[i].e = "exec") =>
            FirstExec.id = last.failed /\ FirstExec.k = 1

\* A migrateUp() failed in the second operation of "2" after recording "10";
\* the retry executed both operations of "2", recorded it and returned.
C28_Witness ==
  /\ call = "up"
  /\ Returned
  /\ last = [call |-> "up", result |-> "error", failed |-> << 2 >>]
  /\ start.ledger = { << 1, 0 >> }
  /\ TableName(<< 2 >>, 1) \in start.tables
  /\ ledger = { << 1, 0 >>, << 2 >> }
  /\ SelectSeq(log, LAMBDA x : x.e = "exec")
       = << Event("exec", << 2 >>, 1, TRUE), Event("exec", << 2 >>, 2, TRUE) >>

(***************************************************************************)
(* Properties of two interleaved migrateUp() calls.                        *)
(***************************************************************************)
\* C29: with two migrateUp() invocations interleaved on the same backend the
\* ledger never holds two records for one id: of two runners that both saw a
\* migration pending at most one records it, and the other one's migrateUp()
\* does not return normally.
C29_OneRecordPerId ==
  /\ \A id \in Ids : ledgerRows[id] <= 1
  /\ runners[1].recorded \cap runners[2].recorded = {}
  /\ \A r, o \in Runners :
       (r # o /\ runners[r].seen \cap runners[o].recorded # {}) =>
         runners[r].result # "ok"

(***************************************************************************)
(* Properties of the adapters' index statements.                           *)
(***************************************************************************)
Relational == AdapterKinds \ { "MongoDB" }

\* The indexes of the operation with primary not set, in list order.
Secondary(op) == SelectSeq(op.params.indexes, LAMBDA x : ~IsPrimary(x))

\* A create-table operation no adapter has a reason to refuse: built by the
\* builder, or written by hand with its kind set, from the seven column types.
CreatesTable(op) ==
  /\ UnknownTypes(op.params) = <<>>
  /\ BuilderMade(op) \/ op.type = "createTable"

\* C21: for every relational adapter, executeOperation(op) issues one
\* separate index-creation statement for each index of op whose primary flag
\* is not set, in list order, and none for an index with primary: true.
C21_OneStatementPerSecondaryIndex ==
  (/\ xlate.method = "executeOperation"
   /\ xlate.kind \in Relational
   /\ CreatesTable(xlate.op)) =>
    /\ [i \in 1..Len(xlate.requests) |-> xlate.requests[i].name]
         = [i \in 1..Len(Secondary(xlate.op)) |-> Secondary(xlate.op)[i].name]
    /\ [i \in 1..Len(SelectSeq(xlate.stmts, LAMBDA st : st.kind = "createIndex")) |->
          SelectSeq(xlate.stmts, LAMBDA st : st.kind = "createIndex")[i].index.n]
         = [i \in 1..Len(Secondary(xlate.op)) |-> Declared(Secondary(xlate.op)[i].name)]

\* C22: for an index with a where predicate a relational adapter either
\* creates the index with that predicate or fails before creating it, never
\* an unrestricted index in its place; and an index is created UNIQUE only
\* when its unique flag is set.
C22_FilteredIndexKeptOrRefused ==
  (xlate.method = "executeOperation" /\ xlate.kind \in Relational) =>
    \A i \in 1..Len(xlate.requests) :
      /\ HasWhere(Secondary(xlate.op)[i]) =>
           xlate.requests[i].where = Secondary(xlate.op)[i].where
      /\ xlate.requests[i].unique => IsUnique(Secondary(xlate.op)[i])

\* C23: the MongoDB adapter's executeOperation issues createCollection and
\* no call per column, and one createIndex per entry of op.indexes, in list
\* order, each key -1 for DESC and +1 otherwise, unique iff the unique flag
\* is set; revertOperation afterwards removes every index executeOperation
\* created.
C23_MongoIndexesCreatedAndRemoved ==
  xlate.kind = "MongoDB" =>
    /\ xlate.method = "executeOperation" =>
         /\ Len(xlate.stmts) = 1 + Len(xlate.op.params.indexes)
         /\ Len(xlate.requests) = Len(xlate.op.params.indexes)
         /\ \A i \in 1..Len(xlate.requests) :
              LET idx == xlate.op.params.indexes[i]
              IN /\ xlate.requests[i].unique = IsUnique(idx)
                 /\ Len(xlate.requests[i].keys) = Len(idx.columns)
                 /\ \A j \in 1..Len(idx.columns) :
                      /\ xlate.requests[i].keys[j].name = idx.columns[j].name
                      /\ xlate.requests[i].keys[j].order
                           = (IF idx.columns[j].order = "DESC" THEN -1 ELSE 1)
    /\ xlate.method = "revertOperation" => xlate.db.indexes = {}

(***************************************************************************)
(* Properties of BaseDriver.transaction.                                   *)
(***************************************************************************)
TxEnded == tpc = "idle" /\ bodyResult # "none"

\* C10 as stated: transaction(body) starts a transaction; when body returns
\* normally it commits exactly once and returns normally; when body throws it
\* rolls back exactly once, does not commit and rethrows the same error.
C10_CommitOrRollbackOnce ==
  TxEnded =>
    /\ nBegin = 1
    /\ bodyResult = "returned" =>
         nCommit = 1 /\ nRollback = 0 /\ outcome = "returned"
    /\ bodyResult = "threw" =>
         nCommit = 0 /\ nRollback = 1 /\ outcome = "body"

\* C10 amended: when body returns normally exactly one COMMIT is issued, and
\* transaction() returns normally iff it succeeds; a failing COMMIT is
\* followed by one ROLLBACK and an error.  When body throws no COMMIT and
\* exactly one ROLLBACK are issued, and transaction() throws the error of
\* body when the ROLLBACK succeeds and the error of the ROLLBACK otherwise.
C10_CommitOrRollbackOnceAmended ==
  TxEnded =>
    /\ nBegin = 1
    /\ bodyResult = "returned" =>
         /\ nCommit = 1
         /\ IF committed
            THEN nRollback = 0 /\ outcome = "returned"
            ELSE nRollback = 1 /\ outcome = (IF rolledBack THEN "commit" ELSE "rollback")
    /\ bodyResult = "threw" =>
         /\ nCommit = 0
         /\ ~committed
         /\ nRollback = 1
         /\ outcome = (IF rolledBack THEN "body" ELSE "rollback")

\* A callback that threw at its second statement was rolled back and its
\* error rethrown, after an earlier transaction had committed both rows.
C10_Witness ==
  /\ TxEnded
  /\ bodyResult = "threw"
  /\ outcome = "body"
  /\ rolledBack
  /\ store = {1, 2}
  /\ work = {}


\* C30: after transaction(callback) has returned or thrown, the driver holds
\* no transaction connection: PostgresDriver.client (MySQLDriver.connection)
\* is null and every connection the call took from the pool was released,
\* whichever step failed: the start, the callback, the commit or the
\* rollback.
C30_NoConnectionHeldAfterTransaction ==
  (tpc = "idle" /\ outcome # "none") =>
    /\ client = "null"
    /\ nRelease = nBegin

====
